---- MODULE Spec2Model ----
(***************************************************************************)
(* GameSensePro: the sensitivity calculation pipeline                      *)
(* (modules/sensitivity/calculator.py) as it is driven by the menu loop of *)
(* main.py, with the files it reads and writes.                            *)
(*                                                                         *)
(* Numbers.  A sensitivity value is a Python float that round(x, 1) has    *)
(* rounded to one decimal; it is held here as an integer number of tenths  *)
(* (150.0 is 1500).  A multiplier is an exact rational <<n, d>>, d > 0.    *)
(* A product is formed exactly and round(x, 1) rounds the exact product to *)
(* the nearest tenth.  When the exact product lies halfway between two     *)
(* tenths the Python result depends on the binary representation error of  *)
(* the operands; here such a tie goes to the even tenth.  No property      *)
(* below depends on the direction of a tie.                                *)
(*                                                                         *)
(* Optional values.  Python's None is the empty tuple <<>> and a present   *)
(* value x is <<x>>.                                                       *)
(***************************************************************************)
EXTENDS Integers, Sequences, FiniteSets, TLC

VARIABLES
    pc,             \* position of main(): menu, the pipeline stage to run next, returned, exited
    game,           \* main.py:46   the game selected before the loop
    mode,           \* main.py:47   always "" in main
    info,           \* main.py:58   device info handed to calculate_sensitivity
    player_style,   \* main.py:59
    cam_sense,      \* calculator.py:81   camera table (optional)
    fire_sense,     \* calculator.py:92   firing table (optional)
    gyro_sense,     \* calculator.py:103  gyro table (optional)
    news_adjust,    \* calculator.py:117  factor returned by fetch_game_news (optional)
    adjustments,    \* calculator.py:173  per-scope preview percentages (optional)
    adjust,         \* calculator.py:217  calibration multiplier (optional)
    hist,           \* the tables as they stood at the end of each stage of this call
    failedAt,       \* stage whose exception reached the handler at calculator.py:146, or ""
    feedbackFailed, \* the handler at calculator.py:134 ran in this call
    feedbackFile,   \* data/feedback.json
    resultTxt,      \* <game dir>/sensitivity_result.txt (optional)
    resultJson,     \* <game dir>/sensitivity_result.json (optional)
    statsFile,      \* data/stats.json
    displayed,      \* the result display_results showed last (optional)
    runs,           \* calculations started so far; stands for the timestamp of a result
    sessionFile,    \* data/session.json
    loadedSession,  \* the dict load_session returned to its caller (optional)
    feedbackAnswers, \* feedback.py:42-82  the answers of the last collect_feedback (optional)
    submissions,    \* calls of collect_feedback that saved data/feedback.json so far
    updateFile,     \* data/update_info.json
    check,          \* updates.py:23-143  the locals of the last check_for_updates
    gyroProbe       \* info.py:398-399  what the sensor and the user gave the gyro detection (optional)

vars == <<pc, game, mode, info, player_style, cam_sense, fire_sense, gyro_sense,
          news_adjust, adjustments, adjust, hist, failedAt, feedbackFailed,
          feedbackFile, resultTxt, resultJson, statsFile, displayed, runs,
          sessionFile, loadedSession, feedbackAnswers, submissions, updateFile, check,
          gyroProbe>>

----------------------------------------------------------------------------
(* Bounds *)

\* calculations one run of the program starts (menu choice 1)
MaxCalcs == 1

----------------------------------------------------------------------------
(* Optional values and exact arithmetic *)

None == <<>>
Some(x) == <<x>>
Val(o) == o[1]

\* Python truthiness of an optional table: None is falsy, a table of seven scopes is truthy
Truthy(o) == o # None

Abs(x) == IF x < 0 THEN -x ELSE x

RECURSIVE GCD(_, _)
GCD(a, b) == IF b = 0 THEN a ELSE GCD(b, a % b)

\* the rational n/d in lowest terms, d > 0
Rat(n, d) ==
    LET g == GCD(Abs(n), Abs(d))
        s == IF d < 0 THEN -1 ELSE 1
    IN  <<(s * n) \div g, (s * d) \div g>>

RMul(a, b) ==
    LET g1 == GCD(Abs(a[1]), b[2])
        g2 == GCD(Abs(b[1]), a[2])
    IN  Rat((a[1] \div g1) * (b[1] \div g2), (a[2] \div g2) * (b[2] \div g1))

RInv(a) == Rat(a[2], a[1])
RLe(a, b) == a[1] * b[2] <= b[1] * a[2]
RMin(a, b) == IF RLe(a, b) THEN a ELSE b
RMax(a, b) == IF RLe(b, a) THEN a ELSE b

\* round(n/d) to the nearest integer, ties to even (d > 0)
RoundDiv(n, d) ==
    LET q == n \div d
        r == n % d
    IN  IF 2 * r > d THEN q + 1
        ELSE IF 2 * r < d THEN q
        ELSE IF q % 2 = 0 THEN q ELSE q + 1

\* round(x, 1) of the rational x, in tenths
Round1(x) == RoundDiv(10 * x[1], x[2])

----------------------------------------------------------------------------
(* Program data *)

ScopeOrder == <<"No ADS", "Iron Sight", "2x Scope", "3x Scope", "4x Scope", "6x Scope", "8x Scope">>
ScopeSet == {ScopeOrder[i] : i \in 1..Len(ScopeOrder)}

GAME_SETTINGS ==
    ("Blood Strike" :> [cap |-> 300]) @@
    ("Free Fire" :> [cap |-> 100]) @@
    ("Call of Duty Mobile" :> [cap |-> 300]) @@
    ("Delta Force" :> [cap |-> 200]) @@
    ("PUBG Mobile" :> [cap |-> 300])

Games == DOMAIN GAME_SETTINGS

\* GAME_SETTINGS as line 50 finds it: the catalog above, or the catalog with an entry added
\* whose cap is not positive (no entry of constants.py has one)
Catalog ==
    GAME_SETTINGS @@ ("Zero Cap Game" :> [cap |-> 0]) @@ ("Negative Cap Game" :> [cap |-> -100])

BASE_SENS == 150

\* per-scope coefficients, in hundredths
CamCoef ==
    ("No ADS" :> 100) @@ ("Iron Sight" :> 80) @@ ("2x Scope" :> 70) @@ ("3x Scope" :> 65) @@
    ("4x Scope" :> 60) @@ ("6x Scope" :> 55) @@ ("8x Scope" :> 50)

FireCoef ==
    ("No ADS" :> 110) @@ ("Iron Sight" :> 85) @@ ("2x Scope" :> 75) @@ ("3x Scope" :> 70) @@
    ("4x Scope" :> 65) @@ ("6x Scope" :> 60) @@ ("8x Scope" :> 55)

GyroCoef ==
    ("No ADS" :> 90) @@ ("Iron Sight" :> 75) @@ ("2x Scope" :> 65) @@ ("3x Scope" :> 60) @@
    ("4x Scope" :> 55) @@ ("6x Scope" :> 50) @@ ("8x Scope" :> 45)

----------------------------------------------------------------------------
(* calculate_sensitivity: base derivation (calculator.py:44-114) *)

\* max(lo, min(hi, x))
Clamped(lo, hi, x) == RMax(lo, RMin(hi, x))

\* info["DPI"] / 440 clamped to [0.5, 2.0]
DPI_SCALE(i) == Clamped(<<1, 2>>, <<2, 1>>, Rat(i.DPI, 440))

\* info["RefreshRate"] / 120 clamped to [0.8, 1.5]
REFRESH_SCALE(i) == Clamped(<<4, 5>>, <<3, 2>>, Rat(i.RefreshRate, 120))

\* info["ScreenSize"] / 6.67 clamped to [0.7, 1.3]; ScreenSize is held in hundredths of an inch
SCREEN_SCALE(i) == Clamped(<<7, 10>>, <<13, 10>>, Rat(i.ScreenSize, 667))

finger_adjust(ps) ==
    (1 :> <<11, 10>>) @@ (2 :> <<1, 1>>) @@ (3 :> IF ps.claw_grip THEN <<9, 10>> ELSE <<17, 20>>)

aiming_adjust == ("thumb" :> <<11, 10>>) @@ ("index" :> <<1, 1>>) @@ ("other" :> <<19, 20>>)

skill_adjust == ("beginner" :> <<9, 10>>) @@ ("intermediate" :> <<1, 1>>) @@ ("advanced" :> <<23, 20>>)

style_adjust(ps) ==
    RMul(RMul(finger_adjust(ps)[ps.fingers], aiming_adjust[ps.aiming_finger]),
         skill_adjust[ps.skill])

\* a dictionary lookup of lines 50-74 raises KeyError
BaseRaises(ps, g) ==
    \/ g \notin DOMAIN Catalog
    \/ ps.fingers \notin DOMAIN finger_adjust(ps)
    \/ ps.aiming_finger \notin DOMAIN aiming_adjust
    \/ ps.skill \notin DOMAIN skill_adjust

MAX_SENS(g) == Catalog[g].cap

adjusted_baseMutNoClamp(i, ps, g) ==
    RMul(RMul(RMul(RMul(<<BASE_SENS, 1>>, RInv(DPI_SCALE(i))), REFRESH_SCALE(i)),
              SCREEN_SCALE(i)), style_adjust(ps))

adjusted_baseMutFeedback(i, ps, g) ==
    LET raw == RMul(RMul(RMul(RMul(<<BASE_SENS, 1>>, RInv(DPI_SCALE(i))), REFRESH_SCALE(i)),
                         SCREEN_SCALE(i)), style_adjust(ps))
    IN  IF feedbackFile.exists THEN <<50, 1>>
        ELSE Clamped(<<50, 1>>, Rat(MAX_SENS(g) * 9, 10), raw)

\* lines 77-78
adjusted_base(i, ps, g) ==
    LET raw == RMul(RMul(RMul(RMul(<<BASE_SENS, 1>>, RInv(DPI_SCALE(i))), REFRESH_SCALE(i)),
                         SCREEN_SCALE(i)), style_adjust(ps))
    IN  Clamped(<<50, 1>>, Rat(MAX_SENS(g) * 9, 10), raw)

\* math.log1p(r) / 2 for the gyro ranges of the model (r in thousandths of rad/s), to three
\* decimals: log1p(1.0)/2 = 0.347, log1p(6.389)/2 = 1.000 (6.389 is e^2 - 1),
\* log1p(25.0)/2 = 1.629
Log1pHalf(r) ==
    CASE r = 1000 -> <<347, 1000>>
      [] r = 6389 -> <<1, 1>>
      [] r = 25000 -> <<1629, 1000>>

\* line 105
GYRO_SCALE(i) == RMin(<<3, 2>>, RMax(<<1, 2>>, Log1pHalf(Val(i.GyroRange))))

\* round(base * coef, 1), in tenths
BaseEntry(base, coef) == Round1(RMul(base, Rat(coef, 100)))

CamBaseMutReversed(base) ==
    [s \in ScopeSet |->
        BaseEntry(base, CamCoef[ScopeOrder[Len(ScopeOrder) + 1 - (CHOOSE k \in 1..Len(ScopeOrder) : ScopeOrder[k] = s)]])]

\* lines 81-89
CamBase(base) == [s \in ScopeSet |-> BaseEntry(base, CamCoef[s])]

FireBaseMutCamCoef(base) == [s \in ScopeSet |-> BaseEntry(base, CamCoef[s])]

\* lines 92-100
FireBase(base) == [s \in ScopeSet |-> BaseEntry(base, FireCoef[s])]

\* lines 103-114
GyroBaseMutZero(i, base) ==
    IF i.GyroRange # None
    THEN Some([s \in ScopeSet |-> Round1(RMul(RMul(base, Rat(GyroCoef[s], 100)), GYRO_SCALE(i)))])
    ELSE Some([s \in ScopeSet |-> 0])

GyroBase(i, base) ==
    IF i.GyroRange # None
    THEN Some([s \in ScopeSet |-> Round1(RMul(RMul(base, Rat(GyroCoef[s], 100)), GYRO_SCALE(i)))])
    ELSE None

----------------------------------------------------------------------------
(* fetch_game_news (news.py:14-143) *)

\* the sentiment labels of mock_news, per game and mode, in dictionary order
mock_news ==
    ("Blood Strike" :> << <<"Battle Royale", <<"positive", "negative", "positive">> >>,
                          <<"Team Deathmatch", <<"positive", "negative">> >> >>) @@
    ("Free Fire" :> << <<"Battle Royale", <<"positive", "negative", "positive">> >>,
                       <<"Clash Squad", <<"neutral", "positive">> >> >>) @@
    ("Call of Duty Mobile" :> << <<"Battle Royale", <<"positive", "negative">> >>,
                                 <<"Multiplayer", <<"positive", "negative">> >> >>) @@
    ("Delta Force" :> << <<"Havoc Warfare", <<"positive", "negative", "positive">> >>,
                         <<"Black Hawk Down", <<"positive", "negative">> >> >>) @@
    ("PUBG Mobile" :> << <<"Classic Royale", <<"positive", "negative", "positive">> >>,
                         <<"Team Deathmatch", <<"positive", "negative">> >> >>)

\* mock_news and one game more, to have what the shipped posts lack: a mode with more than
\* seven posts (nine, a tenth and eleventh in the second mode) and a post whose sentiment
\* is none of the three labels of line 131
NewsData ==
    mock_news @@
    ("Busy Game" :> << <<"Ranked", <<"positive", "mixed", "positive", "positive", "negative",
                                    "positive", "positive", "negative", "negative">> >>,
                       <<"Casual", <<"negative", "negative">> >> >>)

Take7MutAll(items) == items

\* items[:7]
Take7(items) == SubSeq(items, 1, IF Len(items) < 7 THEN Len(items) ELSE 7)

RECURSIVE Extend(_, _)
\* lines 99-101: news_items.extend(mode_news) over every mode of the game
Extend(modes, k) == IF k > Len(modes) THEN <<>> ELSE modes[k][2] \o Extend(modes, k + 1)

ModeNames(g) == {NewsData[g][k][1] : k \in 1..Len(NewsData[g])}
ModeItems(g, m) == (CHOOSE k \in 1..Len(NewsData[g]) : NewsData[g][k][1] = m)

\* lines 95-104
news_items(g, m) ==
    IF m # "" /\ g \in DOMAIN NewsData /\ m \in ModeNames(g)
    THEN Take7(NewsData[g][ModeItems(g, m)][2])
    ELSE IF g \in DOMAIN NewsData THEN Take7(Extend(NewsData[g], 1))
    ELSE <<>>

\* line 131, in hundredths; an unknown label scores 0
SentimentScore(label) ==
    CASE label = "positive" -> 5
      [] label = "negative" -> -5
      [] OTHER -> 0

RECURSIVE SentimentSum(_, _)
SentimentSum(items, k) == IF k = 0 THEN 0 ELSE SentimentSum(items, k - 1) + SentimentScore(items[k])

Uniform(f) == [cam_adjust |-> f, fire_adjust |-> f, gyro_adjust |-> f]

fetch_game_newsMutSum(g, m, shown) ==
    LET items == news_items(g, m)
    IN  IF Len(items) = 0 \/ shown = 0 THEN Uniform(<<1, 1>>)
        ELSE Uniform(Rat(100 + SentimentSum(items, shown), 100))

\* lines 106-143; shown is the number of items displayed before the 15 s cut-off of line 117
fetch_game_news(g, m, shown) ==
    LET items == news_items(g, m)
        count == shown
    IN  IF Len(items) = 0 THEN Uniform(<<1, 1>>)
        ELSE IF count > 0 THEN Uniform(Rat(100 * count + SentimentSum(items, count), 100 * count))
        ELSE Uniform(<<1, 1>>)

----------------------------------------------------------------------------
(* Applying a multiplier to a table entry *)

AdjustedMutNoClamp(v, f, cap) == RoundDiv(v * f[1], f[2])

\* round(min(value * factor, cap), 1): v in tenths, f a rational, result in tenths
Adjusted(v, f, cap) ==
    IF v * f[1] <= 10 * cap * f[2] THEN RoundDiv(v * f[1], f[2]) ELSE 10 * cap

\* the cap applied to the first scope of each table only
ApplyFactorMutClampFirst(tabs, f, cap) ==
    LET One(v, g, s) == IF s = "No ADS" THEN Adjusted(v, g, cap) ELSE AdjustedMutNoClamp(v, g, cap)
    IN  [cam  |-> [s \in ScopeSet |-> One(tabs.cam[s], f.cam_adjust, s)],
         fire |-> [s \in ScopeSet |-> One(tabs.fire[s], f.fire_adjust, s)],
         gyro |-> IF Truthy(tabs.gyro)
                  THEN Some([s \in ScopeSet |-> One(Val(tabs.gyro)[s], f.gyro_adjust, s)])
                  ELSE tabs.gyro]

\* lines 118-122 (and 223-227): one multiplier per table, every scope
ApplyFactor(tabs, f, cap) ==
    [cam  |-> [s \in ScopeSet |-> Adjusted(tabs.cam[s], f.cam_adjust, cap)],
     fire |-> [s \in ScopeSet |-> Adjusted(tabs.fire[s], f.fire_adjust, cap)],
     gyro |-> IF Truthy(tabs.gyro)
              THEN Some([s \in ScopeSet |-> Adjusted(Val(tabs.gyro)[s], f.gyro_adjust, cap)])
              ELSE tabs.gyro]

----------------------------------------------------------------------------
(* Stored feedback (calculator.py:124-136) *)

\* a value of the feedback file: a number is a rational <<n, d>>; a value that is not a
\* number (a JSON string or null) is <<>>
NotANumber == <<>>
IsNumber(v) == v # NotANumber

FeedbackExistsMutAlways(file) == TRUE

\* os.path.exists(FEEDBACK_FILE)
FeedbackExists(file) == file.exists

RECURSIVE FeedbackLoop(_, _, _, _)
\* lines 129-133 from scope k on: the first multiplication by a value that is not a number
\* raises TypeError and leaves the entries already assigned as they are
FeedbackLoop(tabs, fb, cap, k) ==
    IF k > Len(ScopeOrder) THEN [tabs |-> tabs, raised |-> FALSE]
    ELSE
      LET s == ScopeOrder[k] IN
      IF ~IsNumber(fb.cam_adjust) THEN [tabs |-> tabs, raised |-> TRUE]
      ELSE
        LET t1 == [tabs EXCEPT !.cam[s] = Adjusted(@, fb.cam_adjust, cap)] IN
        IF ~IsNumber(fb.fire_adjust) THEN [tabs |-> t1, raised |-> TRUE]
        ELSE
          LET t2 == [t1 EXCEPT !.fire[s] = Adjusted(@, fb.fire_adjust, cap)] IN
          IF ~Truthy(t2.gyro) THEN FeedbackLoop(t2, fb, cap, k + 1)
          ELSE IF ~IsNumber(fb.gyro_adjust) THEN [tabs |-> t2, raised |-> TRUE]
          ELSE FeedbackLoop(
                 [t2 EXCEPT !.gyro = Some([Val(@) EXCEPT ![s] = Adjusted(@, fb.gyro_adjust, cap)])],
                 fb, cap, k + 1)

\* the factors of the file applied once more in every calculation after the first
ApplyFeedbackMutAccumulate(tabs, file, cap) ==
    LET once == IF file.json # "object" THEN [tabs |-> tabs, raised |-> TRUE]
                ELSE FeedbackLoop(tabs, file, cap, 1)
    IN  IF runs > 1 /\ ~once.raised THEN FeedbackLoop(once.tabs, file, cap, 1) ELSE once

\* lines 126-136: json.load raises on text that is not JSON; feedback.get raises on a JSON
\* value that is not an object
ApplyFeedback(tabs, file, cap) ==
    IF file.json # "object" THEN [tabs |-> tabs, raised |-> TRUE]
    ELSE FeedbackLoop(tabs, file, cap, 1)

----------------------------------------------------------------------------
(* preview_sensitivity (calculator.py:151-191) and calibrate_sensitivity (193-232) *)

PreviewApplyMutOnePct(tabs, pcts, cap) ==
    [cam  |-> [s \in ScopeSet |-> Adjusted(tabs.cam[s], <<pcts["No ADS"], 100>>, cap)],
     fire |-> [s \in ScopeSet |-> Adjusted(tabs.fire[s], <<pcts["No ADS"], 100>>, cap)],
     gyro |-> IF Truthy(tabs.gyro)
              THEN Some([s \in ScopeSet |-> Adjusted(Val(tabs.gyro)[s], <<pcts["No ADS"], 100>>, cap)])
              ELSE tabs.gyro]

\* lines 180-186: adjustments[scope] = pct / 100.0 applied to the three entries of the scope
PreviewApply(tabs, pcts, cap) ==
    [cam  |-> [s \in ScopeSet |-> Adjusted(tabs.cam[s], <<pcts[s], 100>>, cap)],
     fire |-> [s \in ScopeSet |-> Adjusted(tabs.fire[s], <<pcts[s], 100>>, cap)],
     gyro |-> IF Truthy(tabs.gyro)
              THEN Some([s \in ScopeSet |-> Adjusted(Val(tabs.gyro)[s], <<pcts[s], 100>>, cap)])
              ELSE tabs.gyro]

CalibrationFactorMutSwapped(choice) ==
    IF choice = 1 THEN <<11, 10>> ELSE IF choice = 2 THEN <<9, 10>> ELSE <<1, 1>>

\* lines 217-221
CalibrationFactor(choice) ==
    IF choice = 1 THEN <<9, 10>> ELSE IF choice = 2 THEN <<11, 10>> ELSE <<1, 1>>

----------------------------------------------------------------------------
(* save_results (storage.py:16-83) and update_stats (stats/manager.py:18-54) *)

\* The files record which result they hold (by its timestamp) and whether its gyro part is
\* a table; the per-scope numbers written are those of the tables handed to save_results.

\* storage.py:61-70
ResultRecord(ts, g, gyro) ==
    [timestamp |-> ts, game |-> g,
     gyro_sensitivity |-> IF Truthy(gyro) THEN "table" ELSE "Not Available"]

\* storage.py:36-58
TextReport(ts, g, gyro) == [timestamp |-> ts, game |-> g, gyro_section |-> Truthy(gyro)]

\* manager.py:26-32: the default when the file is absent or cannot be parsed
LoadStats(file) ==
    IF file.exists /\ file.valid
    THEN [calculations |-> file.calculations, feedback_count |-> file.feedback_count]
    ELSE [calculations |-> <<>>, feedback_count |-> 0]

\* manager.py:35 and 46: stats["calculations"] or stats["feedback_count"] raises KeyError
\* (TypeError if the JSON value is not an object); update_stats has no handler around these
\* lines, so the exception leaves it before the file is written
UpdateStatsRaises(file) == file.exists /\ file.valid /\ ~file.complete

\* manager.py:35-51
update_stats(file, result, fbExists) ==
    LET stats == LoadStats(file)
    IN  [exists |-> TRUE, valid |-> TRUE, complete |-> TRUE,
         calculations |-> Append(stats.calculations,
                                 [timestamp |-> result.timestamp, game |-> result.game,
                                  gyro_sense |-> result.gyro_sensitivity]),
         feedback_count |-> stats.feedback_count + (IF fbExists THEN 1 ELSE 0)]

\* main.py:62
ShouldPersistMutAlways(cam, fire) == TRUE

ShouldPersist(cam, fire) == Truthy(cam) /\ Truthy(fire)

----------------------------------------------------------------------------
(* Inputs of the model *)

Device(name, dpi, hz, size, range) ==
    [Device |-> name, DPI |-> dpi, RefreshRate |-> hz, ScreenSize |-> size, GyroRange |-> range]

Style(fingers, skill, aiming, claw) ==
    [fingers |-> fingers, skill |-> skill, aiming_finger |-> aiming, claw_grip |-> claw]

\* the device and player style one calculation is started with
Profiles ==
    { [info |-> Device("reference", 440, 120, 667, None),
       style |-> Style(2, "intermediate", "index", FALSE)],
      [info |-> Device("reference-gyro", 440, 120, 667, Some(25000)),
       style |-> Style(2, "intermediate", "index", FALSE)],
      [info |-> Device("dpi420-144hz", 420, 144, 667, Some(25000)),
       style |-> Style(1, "intermediate", "index", FALSE)],
      [info |-> Device("tablet", 220, 144, 1010, Some(25000)),
       style |-> Style(1, "advanced", "thumb", FALSE)],
      [info |-> Device("compact", 880, 60, 400, Some(1000)),
       style |-> Style(3, "beginner", "other", FALSE)],
      [info |-> Device("mid", 400, 90, 650, Some(6389)),
       style |-> Style(3, "advanced", "thumb", TRUE)],
      [info |-> Device("reference", 440, 120, 667, None),
       style |-> Style(4, "intermediate", "index", FALSE)] }

FeedbackFile(exists, json, c, f, g) ==
    [exists |-> exists, json |-> json, cam_adjust |-> c, fire_adjust |-> f, gyro_adjust |-> g]

\* data/feedback.json when the program starts: absent, written by an earlier
\* collect_feedback, edited by hand, or damaged
FeedbackFiles ==
    { FeedbackFile(FALSE, "invalid", <<1, 1>>, <<1, 1>>, <<1, 1>>),
      FeedbackFile(TRUE, "object", <<1, 1>>, <<1, 1>>, <<1, 1>>),
      FeedbackFile(TRUE, "object", <<9, 10>>, <<11, 10>>, <<1, 1>>),
      FeedbackFile(TRUE, "object", <<6, 5>>, <<6, 5>>, <<6, 5>>),
      FeedbackFile(TRUE, "object", <<-1, 1>>, <<1, 1>>, <<1, 1>>),
      FeedbackFile(TRUE, "invalid", <<1, 1>>, <<1, 1>>, <<1, 1>>),
      FeedbackFile(TRUE, "array", <<1, 1>>, <<1, 1>>, <<1, 1>>),
      FeedbackFile(TRUE, "object", <<9, 10>>, NotANumber, <<1, 1>>),
      FeedbackFile(TRUE, "object", <<1, 1>>, <<11, 10>>, NotANumber) }

\* data/stats.json: whether it exists, whether its text parses as JSON, whether the parsed
\* value is an object with the keys "calculations" and "feedback_count", and the records
\* logged to it
StatsFile(exists, valid, complete, calcs) ==
    [exists |-> exists, valid |-> valid, complete |-> complete, calculations |-> calcs,
     feedback_count |-> 0]

\* a record logged by an earlier run of the program
EarlierRecord(g) == [timestamp |-> 0, game |-> g, gyro_sense |-> "Not Available"]

\* data/stats.json when the program starts: absent, unreadable, or holding one earlier record
StatsFiles(g) ==
    { StatsFile(FALSE, FALSE, FALSE, <<>>),
      StatsFile(TRUE, FALSE, FALSE, <<>>),
      StatsFile(TRUE, TRUE, TRUE, <<EarlierRecord(g)>>) }

\* further contents of data/stats.json: text that no longer parses although records were
\* logged to it (the write of manager.py:50-51 was cut short), and valid JSON without the
\* keys update_stats reads (for example {})
StatsFilesAll(g) ==
    StatsFiles(g) \cup
    { StatsFile(TRUE, FALSE, FALSE, <<EarlierRecord(g)>>),
      StatsFile(TRUE, TRUE, FALSE, <<>>) }

\* devices and styles over the whole range of each scale: below, inside and above each band
DeviceGrid ==
    { Device("grid", dpi, hz, size, range) :
        dpi \in {100, 220, 440, 880, 1000}, hz \in {60, 120, 240},
        size \in {300, 667, 1010}, range \in {None, Some(25000)} }

\* player.py:115-120: claw_grip is False unless fingers is 3; a finger count of 4 has no
\* entry in finger_adjust
StyleGrid ==
    { Style(f, sk, a, c) :
        f \in 1..4, sk \in DOMAIN skill_adjust, a \in DOMAIN aiming_adjust, c \in BOOLEAN }
    \ { Style(f, sk, a, TRUE) :
        f \in {1, 2, 4}, sk \in DOMAIN skill_adjust, a \in DOMAIN aiming_adjust }

\* the mode argument of calculate_sensitivity: main passes "", the signature takes any
\* string; "Ranked" is a mode no game has
NewsModes ==
    {""} \cup UNION {ModeNames(g) : g \in Games} \cup {"Ranked"}

\* the game argument of calculate_sensitivity: a game of the catalog, a name the catalog
\* does not have, or a game whose cap is not positive
GameArguments == DOMAIN Catalog \cup {"Unknown Game"}

AllPct(p) == [s \in ScopeSet |-> p]
OnePct(scope, p) == [s \in ScopeSet |-> IF s = scope THEN p ELSE 100]

\* answers to the seven preview prompts (IntPrompt.ask without choices takes any integer)
PreviewInputs ==
    {AllPct(100), AllPct(80)} \cup {OnePct(s, p) : s \in {"No ADS", "8x Scope"}, p \in {-50, 120}}

----------------------------------------------------------------------------
(* State machine *)

Tables == [cam |-> Val(cam_sense), fire |-> Val(fire_sense), gyro |-> gyro_sense]

Snap(stage, tabs) == [stage |-> stage, cam |-> tabs.cam, fire |-> tabs.fire, gyro |-> tabs.gyro]

\* data/session.json: whether it exists, whether its text parses as JSON, and the values
\* stored under the keys the callers of load_session read (0 stands for a missing key)
SessionFile(exists, valid, fingers, skill, dpi) ==
    [exists |-> exists, valid |-> valid, fingers |-> fingers, skill |-> skill, dpi |-> dpi]

\* the dict a valid session file holds
SessionData(file) == [fingers |-> file.fingers, skill |-> file.skill, dpi |-> file.dpi]

\* the empty dict
EmptySession == [fingers |-> 0, skill |-> 0, dpi |-> 0]

SessionFiles ==
    { SessionFile(FALSE, FALSE, 0, 0, 0), SessionFile(TRUE, FALSE, 0, 0, 0) } \cup
    { SessionFile(TRUE, TRUE, f, s, d) : f \in 0..3, s \in 0..3, d \in {0, 440} }

\* a version string: the number of leading "v" characters and the components between the
\* dots. A component is <<"num", n>> for a string of decimal digits with value n,
\* <<"word", 0>> for a string str.isdigit() rejects (empty, "0-beta", "rc1", " 9") and
\* <<"sup", 0>> for a string str.isdigit() accepts and int() rejects ("\u00b2")
Version(leading, components) == [v |-> leading, components |-> components]
Num(n) == <<"num", n>>
Word == <<"word", 0>>
Sup == <<"sup", 0>>

\* no version: the key is missing
NoVersion == Version(0, <<>>)

\* constants.py:100, "1.0.9"
default_version == Version(0, <<Num(1), Num(0), Num(9)>>)

\* data/update_info.json: whether it exists, whether its text parses as JSON, the string
\* under "current_version" and the string under "latest_version" (NoVersion for a missing
\* key; the latter is there once a check or an update has written the file)
UpdateFile(exists, valid, version, latest) ==
    [exists |-> exists, valid |-> valid, current_version |-> version, latest_version |-> latest]

\* constants.py:110-114: the record get_current_version writes
DefaultUpdateFile == UpdateFile(TRUE, TRUE, default_version, NoVersion)

\* the locals of check_for_updates before any call: no request made, nothing returned;
\* calls counts the calls so far and found is the update file as the call found it
NoCheck ==
    [calls |-> 0, attempts |-> 0, succeeded |-> FALSE, current_version |-> NoVersion,
     latest_version |-> NoVersion, needs_update |-> FALSE, is_equal |-> FALSE,
     accepted |-> FALSE, applied |-> FALSE, found |-> DefaultUpdateFile, returned |-> None]

\* the menu choices beside the calculation: feedback collection and the update check
maint == <<feedbackAnswers, submissions, updateFile, check, gyroProbe>>

\* no feedback collected, the update file as the import of constants.py left it
MaintIdle ==
    /\ feedbackAnswers = None
    /\ submissions = 0
    /\ updateFile = DefaultUpdateFile
    /\ check = NoCheck
    /\ gyroProbe = None

\* the state outside the calculation: the session file and the dict loaded from it, and
\* the state of the other menu choices
side == <<sessionFile, loadedSession, maint>>

\* no session file, nothing loaded
SideIdle ==
    /\ sessionFile = SessionFile(FALSE, FALSE, 0, 0, 0)
    /\ loadedSession = None
    /\ MaintIdle

files == <<feedbackFile, resultTxt, resultJson, statsFile, displayed>>
inputs == <<game, mode, info, player_style, runs>>

Init ==
    /\ pc = "menu"
    /\ game \in Games
    /\ mode = ""
    /\ info = None
    /\ player_style = None
    /\ cam_sense = None
    /\ fire_sense = None
    /\ gyro_sense = None
    /\ news_adjust = None
    /\ adjustments = None
    /\ adjust = None
    /\ hist = <<>>
    /\ failedAt = ""
    /\ feedbackFailed = FALSE
    /\ feedbackFile \in FeedbackFiles
    /\ resultTxt = None
    /\ resultJson = None
    /\ statsFile \in StatsFiles(game)
    /\ displayed = None
    /\ SideIdle
    /\ runs = 0

\* main.py:56-60: menu choice 1; get_device_info and get_player_style supply the arguments
\* and calculate_sensitivity is entered
MenuCalculate ==
    /\ pc = "menu"
    /\ runs < MaxCalcs
    /\ \E p \in Profiles :
          /\ info' = Some(p.info)
          /\ player_style' = Some(p.style)
    /\ runs' = runs + 1
    /\ pc' = "base"
    /\ UNCHANGED <<game, mode, cam_sense, fire_sense, gyro_sense, news_adjust, adjustments,
                   adjust, hist, failedAt, feedbackFailed, files, side>>

\* calculator.py:146-149: the handler of the outer try returns None, None, None
ExceptReturnMutKeepCam == <<cam_sense, None, None>>

ExceptReturn == <<None, None, None>>

AbortMutPartialSave(stage) ==
    /\ cam_sense' = ExceptReturn[1]
    /\ fire_sense' = ExceptReturn[2]
    /\ gyro_sense' = ExceptReturn[3]
    /\ failedAt' = stage
    /\ pc' = "returned"
    /\ resultTxt' = Some(TextReport(runs, game, gyro_sense))
    /\ UNCHANGED <<news_adjust, adjustments, adjust, hist, feedbackFailed, feedbackFile,
                   resultJson, statsFile, displayed, inputs, side>>

Abort(stage) ==
    /\ cam_sense' = ExceptReturn[1]
    /\ fire_sense' = ExceptReturn[2]
    /\ gyro_sense' = ExceptReturn[3]
    /\ failedAt' = stage
    /\ pc' = "returned"
    /\ UNCHANGED <<news_adjust, adjustments, adjust, hist, feedbackFailed, files, inputs, side>>

\* calculator.py:44-114
ComputeBase ==
    /\ pc = "base"
    /\ ~BaseRaises(Val(player_style), game)
    /\ LET base == adjusted_base(Val(info), Val(player_style), game)
           tabs == [cam |-> CamBase(base), fire |-> FireBase(base),
                    gyro |-> GyroBase(Val(info), base)]
       IN  /\ cam_sense' = Some(tabs.cam)
           /\ fire_sense' = Some(tabs.fire)
           /\ gyro_sense' = tabs.gyro
           /\ hist' = <<Snap("BASE", tabs)>>
    /\ pc' = "news"
    /\ UNCHANGED <<news_adjust, adjustments, adjust, failedAt, feedbackFailed, files, inputs, side>>

\* calculator.py:50-74 raising KeyError
ComputeBaseRaises ==
    /\ pc = "base"
    /\ BaseRaises(Val(player_style), game)
    /\ Abort("base")

\* calculator.py:116-122
NewsStage ==
    /\ pc = "news"
    /\ \E shown \in 0..Len(news_items(game, mode)) :
          LET f == fetch_game_news(game, mode, shown)
              tabs == ApplyFactor(Tables, f, MAX_SENS(game))
          IN  /\ news_adjust' = Some(f)
              /\ cam_sense' = Some(tabs.cam)
              /\ fire_sense' = Some(tabs.fire)
              /\ gyro_sense' = tabs.gyro
              /\ hist' = Append(hist, Snap("NEWS_ADJUSTED", tabs))
    /\ pc' = "feedback"
    /\ UNCHANGED <<adjustments, adjust, failedAt, feedbackFailed, files, inputs, side>>

\* an exception leaves fetch_game_news (the console write of news.py:28 or 121 fails)
NewsRaises ==
    /\ pc = "news"
    /\ Abort("news")

\* calculator.py:124-136
FeedbackStage ==
    /\ pc = "feedback"
    /\ IF FeedbackExists(feedbackFile)
       THEN LET r == ApplyFeedback(Tables, feedbackFile, MAX_SENS(game))
            IN  /\ cam_sense' = Some(r.tabs.cam)
                /\ fire_sense' = Some(r.tabs.fire)
                /\ gyro_sense' = r.tabs.gyro
                /\ feedbackFailed' = r.raised
                /\ hist' = Append(hist, Snap("FEEDBACK_ADJUSTED", r.tabs))
       ELSE UNCHANGED <<cam_sense, fire_sense, gyro_sense, feedbackFailed, hist>>
    /\ pc' = "preview"
    /\ UNCHANGED <<news_adjust, adjustments, adjust, failedAt, files, inputs, side>>

\* calculator.py:139, preview_sensitivity
PreviewStage ==
    /\ pc = "preview"
    /\ \E pcts \in PreviewInputs :
          LET tabs == PreviewApply(Tables, pcts, MAX_SENS(game))
          IN  /\ adjustments' = Some(pcts)
              /\ cam_sense' = Some(tabs.cam)
              /\ fire_sense' = Some(tabs.fire)
              /\ gyro_sense' = tabs.gyro
              /\ hist' = Append(hist, Snap("PREVIEWED", tabs))
    /\ pc' = "calibrate"
    /\ UNCHANGED <<news_adjust, adjust, failedAt, feedbackFailed, files, inputs, side>>

\* IntPrompt.ask of calculator.py:176 raises (EOFError: the input has ended)
PreviewRaises ==
    /\ pc = "preview"
    /\ Abort("preview")

\* calculator.py:140-145, calibrate_sensitivity and the return
CalibrateStage ==
    /\ pc = "calibrate"
    /\ \E choice \in 1..3 :
          LET f == CalibrationFactor(choice)
              tabs == ApplyFactor(Tables, Uniform(f), MAX_SENS(game))
          IN  /\ adjust' = Some(f)
              /\ cam_sense' = Some(tabs.cam)
              /\ fire_sense' = Some(tabs.fire)
              /\ gyro_sense' = tabs.gyro
              /\ hist' = Append(hist, Snap("CALIBRATED", tabs))
    /\ pc' = "returned"
    /\ UNCHANGED <<news_adjust, adjustments, failedAt, feedbackFailed, files, inputs, side>>

\* IntPrompt.ask of calculator.py:215 raises (EOFError)
CalibrateRaises ==
    /\ pc = "calibrate"
    /\ Abort("calibrate")

\* main.py:62-66: display and save the result if there is one, then back to the menu; the
\* names cam, fire, gyro, info and player_style are rebound before main reads them again
HandleResult ==
    /\ pc = "returned"
    /\ IF ShouldPersist(cam_sense, fire_sense)
       THEN LET result == ResultRecord(runs, game, gyro_sense)
            IN  /\ displayed' = Some(runs)
                /\ resultTxt' = Some(TextReport(runs, game, gyro_sense))
                /\ resultJson' = Some(result)
                /\ statsFile' = IF UpdateStatsRaises(statsFile) THEN statsFile
                                ELSE update_stats(statsFile, result, FeedbackExists(feedbackFile))
       ELSE UNCHANGED <<displayed, resultTxt, resultJson, statsFile>>
    /\ pc' = "menu"
    /\ info' = None
    /\ player_style' = None
    /\ cam_sense' = None
    /\ fire_sense' = None
    /\ gyro_sense' = None
    /\ news_adjust' = None
    /\ adjustments' = None
    /\ adjust' = None
    /\ hist' = <<>>
    /\ failedAt' = ""
    /\ feedbackFailed' = FALSE
    /\ UNCHANGED <<game, mode, runs, feedbackFile, side>>

\* main.py:106-121: menu choice 9
MenuExit ==
    /\ pc = "menu"
    /\ pc' = "exited"
    /\ UNCHANGED <<game, mode, info, player_style, cam_sense, fire_sense, gyro_sense,
                   news_adjust, adjustments, adjust, hist, failedAt, feedbackFailed, files, runs,
                   side>>

Next ==
    \/ MenuCalculate
    \/ ComputeBase
    \/ ComputeBaseRaises
    \/ NewsStage
    \/ NewsRaises
    \/ FeedbackStage
    \/ PreviewStage
    \/ PreviewRaises
    \/ CalibrateStage
    \/ CalibrateRaises
    \/ HandleResult
    \/ MenuExit

Spec == Init /\ [][Next]_vars

----------------------------------------------------------------------------
(* The base derivation alone, over the grid of devices and styles *)

\* calculate_sensitivity has been entered with a device and a style of the grid
InitBase ==
    /\ pc = "base"
    /\ game \in Games
    /\ mode = ""
    /\ info \in {Some(d) : d \in DeviceGrid}
    /\ player_style \in {Some(st) : st \in StyleGrid}
    /\ cam_sense = None
    /\ fire_sense = None
    /\ gyro_sense = None
    /\ news_adjust = None
    /\ adjustments = None
    /\ adjust = None
    /\ hist = <<>>
    /\ failedAt = ""
    /\ feedbackFailed = FALSE
    /\ feedbackFile = FeedbackFile(FALSE, "invalid", <<1, 1>>, <<1, 1>>, <<1, 1>>)
    /\ resultTxt = None
    /\ resultJson = None
    /\ statsFile = StatsFile(FALSE, FALSE, FALSE, <<>>)
    /\ displayed = None
    /\ SideIdle
    /\ runs = 1

NextBase ==
    \/ ComputeBase
    \/ ComputeBaseRaises

SpecBase == InitBase /\ [][NextBase]_vars

----------------------------------------------------------------------------
(* The calculation up to the news stage, for every mode argument *)

InitNews ==
    /\ pc = "menu"
    /\ game \in Games
    /\ mode \in NewsModes
    /\ info = None
    /\ player_style = None
    /\ cam_sense = None
    /\ fire_sense = None
    /\ gyro_sense = None
    /\ news_adjust = None
    /\ adjustments = None
    /\ adjust = None
    /\ hist = <<>>
    /\ failedAt = ""
    /\ feedbackFailed = FALSE
    /\ feedbackFile = FeedbackFile(FALSE, "invalid", <<1, 1>>, <<1, 1>>, <<1, 1>>)
    /\ resultTxt = None
    /\ resultJson = None
    /\ statsFile = StatsFile(FALSE, FALSE, FALSE, <<>>)
    /\ displayed = None
    /\ SideIdle
    /\ runs = 0

NextNews ==
    \/ MenuCalculate
    \/ ComputeBase
    \/ ComputeBaseRaises
    \/ NewsStage
    \/ NewsRaises

SpecNews == InitNews /\ [][NextNews]_vars

----------------------------------------------------------------------------
(* The whole program over every content of the stats file *)

InitSave ==
    /\ pc = "menu"
    /\ game \in {"Blood Strike", "Free Fire"}
    /\ mode = ""
    /\ info = None
    /\ player_style = None
    /\ cam_sense = None
    /\ fire_sense = None
    /\ gyro_sense = None
    /\ news_adjust = None
    /\ adjustments = None
    /\ adjust = None
    /\ hist = <<>>
    /\ failedAt = ""
    /\ feedbackFailed = FALSE
    /\ feedbackFile \in { FeedbackFile(FALSE, "invalid", <<1, 1>>, <<1, 1>>, <<1, 1>>),
                          FeedbackFile(TRUE, "object", <<9, 10>>, <<11, 10>>, <<1, 1>>) }
    /\ resultTxt = None
    /\ resultJson = None
    /\ statsFile \in StatsFilesAll(game)
    /\ displayed = None
    /\ SideIdle
    /\ runs = 0

SpecSave == InitSave /\ [][Next]_vars

----------------------------------------------------------------------------
(* One call of calculate_sensitivity for every game argument *)

InitGame ==
    /\ pc = "base"
    /\ game \in GameArguments
    /\ mode = ""
    /\ \E p \in Profiles :
          /\ info = Some(p.info)
          /\ player_style = Some(p.style)
    /\ cam_sense = None
    /\ fire_sense = None
    /\ gyro_sense = None
    /\ news_adjust = None
    /\ adjustments = None
    /\ adjust = None
    /\ hist = <<>>
    /\ failedAt = ""
    /\ feedbackFailed = FALSE
    /\ feedbackFile \in { FeedbackFile(FALSE, "invalid", <<1, 1>>, <<1, 1>>, <<1, 1>>),
                          FeedbackFile(TRUE, "object", <<9, 10>>, <<11, 10>>, <<1, 1>>) }
    /\ resultTxt = None
    /\ resultJson = None
    /\ statsFile = StatsFile(FALSE, FALSE, FALSE, <<>>)
    /\ displayed = None
    /\ SideIdle
    /\ runs = 1

NextGame ==
    \/ ComputeBase
    \/ ComputeBaseRaises
    \/ NewsStage
    \/ NewsRaises
    \/ FeedbackStage
    \/ PreviewStage
    \/ PreviewRaises
    \/ CalibrateStage
    \/ CalibrateRaises

SpecGame == InitGame /\ [][NextGame]_vars

\* one call of calculate_sensitivity for a game of the catalog that ships, with every
\* feedback file of the model
InitCall ==
    /\ pc = "base"
    /\ game \in Games
    /\ mode = ""
    /\ \E p \in Profiles :
          /\ info = Some(p.info)
          /\ player_style = Some(p.style)
    /\ cam_sense = None
    /\ fire_sense = None
    /\ gyro_sense = None
    /\ news_adjust = None
    /\ adjustments = None
    /\ adjust = None
    /\ hist = <<>>
    /\ failedAt = ""
    /\ feedbackFailed = FALSE
    /\ feedbackFile \in FeedbackFiles
    /\ resultTxt = None
    /\ resultJson = None
    /\ statsFile = StatsFile(FALSE, FALSE, FALSE, <<>>)
    /\ displayed = None
    /\ SideIdle
    /\ runs = 1

SpecCall == InitCall /\ [][NextGame]_vars

----------------------------------------------------------------------------
(* Properties *)

\* the numbers of one snapshot of the tables
SnapValues(h) ==
    {h.cam[s] : s \in ScopeSet} \cup {h.fire[s] : s \in ScopeSet} \cup
    (IF h.gyro # None THEN {Val(h.gyro)[s] : s \in ScopeSet} ELSE {})

CapTenths == 10 * GAME_SETTINGS[game].cap

\* C1: upper clamping: at every pipeline stage (BASE, NEWS_ADJUSTED, FEEDBACK_ADJUSTED,
\* PREVIEWED, CALIBRATED) every value of the camera, firing and gyro tables is at most the
\* sensitivity cap of the game.
C1_UpperClampAtEveryStage ==
    \A i \in 1..Len(hist) : \A v \in SnapValues(hist[i]) : v <= CapTenths

\* C2: lower clamping: at every pipeline stage every value of every table is at least 0,
\* whatever percentages are entered at the preview prompts and whatever multipliers the
\* feedback file holds.
C2_LowerClampAtEveryStage ==
    \A i \in 1..Len(hist) : \A v \in SnapValues(hist[i]) : v >= 0

\* the stages one call goes through, given whether data/feedback.json exists
ExpectedStages ==
    IF feedbackFile.exists
    THEN <<"BASE", "NEWS_ADJUSTED", "FEEDBACK_ADJUSTED", "PREVIEWED", "CALIBRATED">>
    ELSE <<"BASE", "NEWS_ADJUSTED", "PREVIEWED", "CALIBRATED">>

\* C3: pipeline order: the stages of one call are a prefix of base, news, stored feedback,
\* preview, calibration, each at most once and never backwards, and the stored-feedback
\* stage is among them exactly when the feedback file exists: it has run when the preview
\* starts, and a call that returns tables has run them all.
C3_PipelineOrder ==
    /\ Len(hist) <= Len(ExpectedStages)
    /\ \A i \in 1..Len(hist) : hist[i].stage = ExpectedStages[i]
    /\ pc = "news" => Len(hist) = 1
    /\ pc = "feedback" => Len(hist) = 2
    /\ pc = "preview" => Len(hist) = Len(ExpectedStages) - 2
    /\ pc = "calibrate" => Len(hist) = Len(ExpectedStages) - 1
    /\ (pc = "returned" /\ failedAt = "") => Len(hist) = Len(ExpectedStages)

\* a call returned tables after running all five stages, the stored-feedback stage included
C3_Witness ==
    /\ pc = "returned"
    /\ failedAt = ""
    /\ feedbackFile.exists
    /\ Len(hist) = 5
    /\ hist[3].stage = "FEEDBACK_ADJUSTED"

\* C4: total failure: a call in which an exception reached the handler returns
\* (None, None, None), and no call returns a camera table without a firing table or the
\* reverse.
C4_TotalFailure ==
    pc = "returned" =>
        /\ failedAt # "" => (cam_sense = None /\ fire_sense = None /\ gyro_sense = None)
        /\ (cam_sense = None) <=> (fire_sense = None)

\* the preview prompt raised after the tables were built, and the call returned nothing
C4_Witness ==
    /\ pc = "returned"
    /\ failedAt = "preview"
    /\ Len(hist) >= 2
    /\ cam_sense = None
    /\ fire_sense = None
    /\ gyro_sense = None

\* C5: when a calculation is aborted, the main loop neither displays nor saves anything (the
\* displayed result, the two result files and the stats log stay as they are) and control
\* returns to the menu.
C5_AbortNotPersisted ==
    [][(pc = "returned" /\ failedAt # "") =>
          (pc' = "menu" /\ UNCHANGED <<displayed, resultTxt, resultJson, statsFile>>)]_vars

\* back at the menu after a calculation, with nothing displayed and no result file written
C5_Witness ==
    /\ pc = "menu"
    /\ runs > 0
    /\ displayed = None
    /\ SideIdle
    /\ resultTxt = None
    /\ resultJson = None

\* C6: corrupt or unreadable stored feedback is a neutral factor: if reading or applying the
\* feedback file raised, every entry of the three tables has its NEWS_ADJUSTED value when
\* the preview stage starts.
C6_CorruptFeedbackIsNeutral ==
    (pc = "preview" /\ feedbackFailed) =>
        /\ cam_sense = Some(hist[2].cam)
        /\ fire_sense = Some(hist[2].fire)
        /\ gyro_sense = hist[2].gyro

GyroRangeAbsent == Val(info).GyroRange = None

\* the gyro table of every stage of the call, and of the returned result
C7_Stages ==
    /\ \A i \in 1..Len(hist) :
          /\ (hist[i].gyro = None) <=> GyroRangeAbsent
          /\ hist[i].gyro # None => DOMAIN Val(hist[i].gyro) = ScopeSet
    /\ pc \in {"news", "feedback", "preview", "calibrate"} =>
          ((gyro_sense = None) <=> GyroRangeAbsent)
    /\ (pc = "returned" /\ failedAt = "") =>
          /\ (gyro_sense = None) <=> GyroRangeAbsent
          /\ gyro_sense # None => DOMAIN Val(gyro_sense) = ScopeSet

\* what save_results writes for the returned result
C7_Persisted ==
    (pc = "returned" /\ resultJson' # resultJson) =>
        /\ (Val(resultJson').gyro_sensitivity = "Not Available") <=> GyroRangeAbsent
        /\ Val(resultTxt').gyro_section <=> ~GyroRangeAbsent

\* C7: gyro absence propagation: with GyroRange absent the gyro table is absent (None, not a
\* table of zeros) at every stage and in the returned result, and it is persisted as
\* "Not Available"; with GyroRange present the gyro table is present with all seven scopes.
C7_GyroAbsencePropagates == [](C7_Stages) /\ [][C7_Persisted]_vars

\* a result without gyro table was saved
C7_Witness ==
    /\ pc = "menu"
    /\ resultJson # None
    /\ Val(resultJson).gyro_sensitivity = "Not Available"
    /\ ~Val(resultTxt).gyro_section

SameTables(a, b) == a.cam = b.cam /\ a.fire = b.fire /\ a.gyro = b.gyro

Neutral == <<1, 1>>

\* C8: the neutral factor is the identity: a news factor of {1.0, 1.0, 1.0} leaves the BASE
\* tables unchanged, and a stored feedback of {1.0, 1.0, 1.0} leaves the NEWS_ADJUSTED
\* tables unchanged.
C8_NeutralFactorIsIdentity ==
    /\ (Len(hist) >= 2 /\ news_adjust = Some(Uniform(Neutral))) => SameTables(hist[2], hist[1])
    /\ (/\ Len(hist) >= 3
        /\ hist[3].stage = "FEEDBACK_ADJUSTED"
        /\ feedbackFile.json = "object"
        /\ feedbackFile.cam_adjust = Neutral
        /\ feedbackFile.fire_adjust = Neutral
        /\ feedbackFile.gyro_adjust = Neutral) => SameTables(hist[3], hist[2])

----------------------------------------------------------------------------
(* Two consecutive stages (C9) *)

TablesPresent(h) == {"cam", "fire"} \cup (IF h.gyro # None THEN {"gyro"} ELSE {})

Entry(h, tab, s) == IF tab = "gyro" THEN Val(h.gyro)[s] ELSE h[tab][s]

AdjustOf(f, tab) ==
    CASE tab = "cam" -> f.cam_adjust
      [] tab = "fire" -> f.fire_adjust
      [] tab = "gyro" -> f.gyro_adjust

\* the multiplier that took entry (tab, s) from snapshot i - 1 to snapshot i
StageFactor(i, tab, s) ==
    CASE hist[i].stage = "NEWS_ADJUSTED" -> AdjustOf(Val(news_adjust), tab)
      [] hist[i].stage = "FEEDBACK_ADJUSTED" -> AdjustOf(feedbackFile, tab)
      [] hist[i].stage = "PREVIEWED" -> <<Val(adjustments)[s], 100>>
      [] hist[i].stage = "CALIBRATED" -> Val(adjust)

\* the two newest snapshots were made by two consecutive stages that both applied their
\* factor to snapshot First; hist grows by one snapshot per stage, so every pair of
\* consecutive stages is the newest pair in the state its second stage leads to
TwoStages ==
    /\ Len(hist) >= 3
    /\ ~feedbackFailed

First == Len(hist) - 2

\* clamp(x) of the claim: round(min(v * f, cap), 1), in tenths
ClampRound(v, f) ==
    IF v * f[1] <= CapTenths * f[2] THEN RoundDiv(v * f[1], f[2]) ELSE CapTenths

ClampTriggers(v, f) == v * f[1] > CapTenths * f[2]

RatEq(a, b) == a[1] * b[2] = b[1] * a[2]

\* the product A * B, not reduced
RatProd(a, b) == <<a[1] * b[1], a[2] * b[2]>>

\* factor A then factor B gives clamp(clamp(value * A) * B)
C9_PerStage(v0, A, B, v2) == v2 = ClampRound(ClampRound(v0, A), B)

\* 280 with cap 300, factor 1.2 then factor 0.8, ends at 240
C9_Example(v0, A, B, v2) ==
    (v0 = 2800 /\ CapTenths = 3000 /\ RatEq(A, <<6, 5>>) /\ RatEq(B, <<4, 5>>)) => v2 = 2400

\* C9 as stated: per-stage clamping, the example, and the result differs from
\* clamp(value * A * B) only when the intermediate clamp triggers
C9_DiffersOnlyWhenClamped ==
    TwoStages =>
        \A tab \in TablesPresent(hist[First]) : \A s \in ScopeSet :
            LET v0 == Entry(hist[First], tab, s)
                A == StageFactor(First + 1, tab, s)
                B == StageFactor(First + 2, tab, s)
                v2 == Entry(hist[First + 2], tab, s)
            IN  /\ C9_PerStage(v0, A, B, v2)
                /\ C9_Example(v0, A, B, v2)
                /\ ~ClampTriggers(v0, A) => v2 = ClampRound(v0, RatProd(A, B))

\* C9 amended: per-stage clamping and the example as stated; when the intermediate clamp
\* does not trigger, the result is within 0.1 + 0.05 * |B| of clamp(value * A * B) (the
\* intermediate value is rounded to one decimal before B is applied).
C9_PerStageClampAndRounding ==
    TwoStages =>
        \A tab \in TablesPresent(hist[First]) : \A s \in ScopeSet :
            LET v0 == Entry(hist[First], tab, s)
                A == StageFactor(First + 1, tab, s)
                B == StageFactor(First + 2, tab, s)
                v2 == Entry(hist[First + 2], tab, s)
            IN  /\ C9_PerStage(v0, A, B, v2)
                /\ C9_Example(v0, A, B, v2)
                /\ ~ClampTriggers(v0, A) =>
                      2 * B[2] * Abs(v2 - ClampRound(v0, RatProd(A, B))) <= Abs(B[1]) + 2 * B[2]

\* the example happened: 280.0 after the news stage, stored feedback 1.2 clamps it to 300.0,
\* preview 80 % gives 240.0
C9_Witness ==
    /\ Len(hist) >= 4
    /\ CapTenths = 3000
    /\ ~feedbackFailed
    /\ hist[2].gyro # None
    /\ Val(hist[2].gyro)["No ADS"] = 2800
    /\ hist[3].stage = "FEEDBACK_ADJUSTED"
    /\ RatEq(feedbackFile.gyro_adjust, <<6, 5>>)
    /\ Val(hist[3].gyro)["No ADS"] = 3000
    /\ hist[4].stage = "PREVIEWED"
    /\ Val(adjustments)["No ADS"] = 80
    /\ Val(hist[4].gyro)["No ADS"] = 2400

----------------------------------------------------------------------------
(* Reference scenario (C10) *)

ReferenceInputs ==
    /\ info # None
    /\ Val(info).DPI = 440
    /\ Val(info).RefreshRate = 120
    /\ Val(info).ScreenSize = 667
    /\ Val(info).GyroRange = None
    /\ Val(player_style).fingers = 2
    /\ Val(player_style).skill = "intermediate"
    /\ Val(player_style).aiming_finger = "index"
    /\ ~Val(player_style).claw_grip
    /\ GAME_SETTINGS[game].cap = 300

\* C10: for dpi 440, refresh rate 120, screen size 6.67, no gyro range, 2 fingers,
\* intermediate skill, index aiming finger, no claw grip and cap 300 the base is 150 and the
\* BASE tables have Camera[No ADS] = 150.0, Camera[8x Scope] = 75.0, Firing[No ADS] = 165.0
\* and no gyro table.
C10_ReferenceScenario ==
    (ReferenceInputs /\ Len(hist) >= 1) =>
        /\ adjusted_base(Val(info), Val(player_style), game) = <<150, 1>>
        /\ hist[1].stage = "BASE"
        /\ hist[1].cam["No ADS"] = 1500
        /\ hist[1].cam["8x Scope"] = 750
        /\ hist[1].fire["No ADS"] = 1650
        /\ hist[1].gyro = None

\* the BASE tables of the reference scenario have been computed
C10_Witness ==
    /\ ReferenceInputs
    /\ pc = "news"
    /\ Len(hist) = 1
    /\ hist[1].cam["No ADS"] = 1500

----------------------------------------------------------------------------
(* Base derivation (C11, C12) *)

\* lo <= x <= hi for rationals with positive denominators
InBand(x, lo, hi) == lo[1] * x[2] <= x[1] * lo[2] /\ x[1] * hi[2] <= hi[1] * x[2]

\* C11: base bounds: for every device, every style the dictionaries know and every game of
\* the catalog, dpi_scale is in [0.5, 2.0], refresh_scale in [0.8, 1.5], screen_scale in
\* [0.7, 1.3] and the adjusted base in [50, 0.9 * cap]; Camera[No ADS] of the BASE table is
\* the base rounded, so it is in the same interval.
C11_BaseBounds ==
    (info # None /\ ~BaseRaises(Val(player_style), game)) =>
        LET i == Val(info)
            base == adjusted_base(i, Val(player_style), game)
            cap == GAME_SETTINGS[game].cap
        IN  /\ InBand(DPI_SCALE(i), <<1, 2>>, <<2, 1>>)
            /\ InBand(REFRESH_SCALE(i), <<4, 5>>, <<3, 2>>)
            /\ InBand(SCREEN_SCALE(i), <<7, 10>>, <<13, 10>>)
            /\ InBand(base, <<50, 1>>, <<9 * cap, 10>>)
            /\ Len(hist) >= 1 =>
                  (hist[1].cam["No ADS"] >= 500 /\ hist[1].cam["No ADS"] <= 9 * cap)

\* a base far above the cap's band (DPI 100, 240 Hz, 10.1 inch) was clamped to 0.9 * cap
C11_Witness ==
    /\ pc = "news"
    /\ game = "Free Fire"
    /\ Val(info).DPI = 100
    /\ Val(info).RefreshRate = 240
    /\ Val(info).ScreenSize = 1010
    /\ hist[1].cam["No ADS"] = 900

\* C12: monotonic scope ladder: the BASE camera table is non-increasing along the scope
\* order No ADS, Iron Sight, 2x, 3x, 4x, 6x, 8x.
C12_MonotonicLadder ==
    Len(hist) >= 1 =>
        \A k \in 1..(Len(ScopeOrder) - 1) :
            hist[1].cam[ScopeOrder[k]] >= hist[1].cam[ScopeOrder[k + 1]]

\* a BASE camera table at the lower end of the base's interval, where neighbouring scopes
\* are closest
C12_Witness ==
    /\ pc = "news"
    /\ hist[1].stage = "BASE"
    /\ hist[1].cam["No ADS"] = 500
    /\ hist[1].cam["6x Scope"] = 275
    /\ hist[1].cam["8x Scope"] = 250

----------------------------------------------------------------------------
(* Sentiment factor (C13) *)

\* the items of the given label among the first k
Labelled(items, k, label) == Cardinality({j \in 1..k : items[j] = label})

\* 1 + mean(scores) over the first k items, as n/d (k > 0)
MeanFactor(items, k) ==
    <<100 * k + 5 * Labelled(items, k, "positive") - 5 * Labelled(items, k, "negative"), 100 * k>>

----------------------------------------------------------------------------
(* Preview and calibration (C14, C15) *)

Last == Len(hist)

\* the newest snapshot is the one the preview stage made
Previewed == Len(hist) >= 2 /\ hist[Last].stage = "PREVIEWED"

\* C14: preview is per scope: after the preview stage every camera, firing and (if present)
\* gyro entry of scope s is its previous value times pct[s] / 100, clamped to the cap and
\* rounded; it depends on no other scope's percentage, so a scope answered with 100 keeps
\* its three entries, and 100 for every scope leaves all tables unchanged.
C14_PreviewPerScope ==
    Previewed =>
        /\ TablesPresent(hist[Last]) = TablesPresent(hist[Last - 1])
        /\ \A tab \in TablesPresent(hist[Last]) : \A s \in ScopeSet :
              LET old == Entry(hist[Last - 1], tab, s)
                  new == Entry(hist[Last], tab, s)
                  pct == Val(adjustments)[s]
              IN  /\ new = ClampRound(old, <<pct, 100>>)
                  /\ pct = 100 => new = old

\* 120 % was entered for the 8x scope only: its entries changed, those of No ADS did not
C14_Witness ==
    /\ Previewed
    /\ adjustments = Some(OnePct("8x Scope", 120))
    /\ hist[Last].gyro # None
    /\ hist[Last].cam["8x Scope"] > hist[Last - 1].cam["8x Scope"]
    /\ Val(hist[Last].gyro)["8x Scope"] > Val(hist[Last - 1].gyro)["8x Scope"]
    /\ hist[Last].cam["No ADS"] = hist[Last - 1].cam["No ADS"]
    /\ hist[Last].fire["6x Scope"] = hist[Last - 1].fire["6x Scope"]

\* the newest snapshot is the one the calibration stage made
Calibrated == Len(hist) >= 2 /\ hist[Last].stage = "CALIBRATED"

\* C15: calibration: choice 1 (too high), 2 (too low), 3 (just right) gives the scalar 0.9,
\* 1.1, 1.0; the scalar chosen is applied to every entry of every present table, clamped to
\* the cap; with 1.0 all tables are unchanged.
C15_Calibration ==
    /\ CalibrationFactor(1) = <<9, 10>>
    /\ CalibrationFactor(2) = <<11, 10>>
    /\ CalibrationFactor(3) = <<1, 1>>
    /\ Calibrated =>
          /\ Val(adjust) \in {<<9, 10>>, <<11, 10>>, <<1, 1>>}
          /\ TablesPresent(hist[Last]) = TablesPresent(hist[Last - 1])
          /\ \A tab \in TablesPresent(hist[Last]) : \A s \in ScopeSet :
                Entry(hist[Last], tab, s) = ClampRound(Entry(hist[Last - 1], tab, s), Val(adjust))
          /\ Val(adjust) = <<1, 1>> => SameTables(hist[Last], hist[Last - 1])

\* "too low" was chosen with a firing value close to the cap: it was raised and clamped
C15_Witness ==
    /\ Calibrated
    /\ pc = "returned"
    /\ adjust = Some(<<11, 10>>)
    /\ hist[Last - 1].fire["No ADS"] = 2970
    /\ hist[Last].fire["No ADS"] = 3000
    /\ hist[Last].cam["No ADS"] = 2970

----------------------------------------------------------------------------
(* Persistence (C16, C17, C18) *)

persisted == <<resultTxt, resultJson, statsFile>>

\* C16: persistence happens only at FINAL: the report, the result record and the stats log
\* change only in a step taken after the calibration stage completed and the call returned
\* its tables, and what is written is the result of that calculation; a step of any
\* earlier stage, and the return of a failed call, leave all three as they were.
C16_PersistOnlyAtFinal ==
    [][persisted' # persisted =>
          /\ pc = "returned"
          /\ failedAt = ""
          /\ Len(hist) >= 1
          /\ hist[Len(hist)].stage = "CALIBRATED"
          /\ resultTxt' = Some(TextReport(runs, game, gyro_sense))
          /\ Val(resultJson').timestamp = runs]_vars

\* the result of a completed calculation is in the report, the record and the stats log
C16_Witness ==
    /\ pc = "menu"
    /\ runs > 0
    /\ displayed = Some(runs)
    /\ resultTxt # None
    /\ Val(resultTxt).timestamp = runs
    /\ Val(resultJson).timestamp = runs
    /\ Len(statsFile.calculations) >= 1
    /\ statsFile.calculations[Len(statsFile.calculations)].timestamp = runs

\* C17: whenever save_results writes the text report of a result, the JSON record and the
\* stats entry of the same result are written too.
C17_ReportRecordAndStats ==
    [][resultTxt' # resultTxt =>
          /\ resultJson' # None
          /\ Val(resultJson').timestamp = Val(resultTxt').timestamp
          /\ statsFile'.exists
          /\ statsFile'.valid
          /\ Len(statsFile'.calculations) >= 1
          /\ statsFile'.calculations[Len(statsFile'.calculations)].timestamp
                = Val(resultTxt').timestamp]_vars

\* update_stats is called: save_results runs for a result that has tables
UpdateStatsCalled == pc = "returned" /\ ShouldPersist(cam_sense, fire_sense)

\* C18: the statistics log is append-only under update_stats: each call leaves every record
\* logged earlier in place, in order, and adds exactly one record, whatever the stats file
\* holds when it is read.
C18_StatsAppendOnly ==
    [][UpdateStatsCalled =>
          /\ Len(statsFile'.calculations) = Len(statsFile.calculations) + 1
          /\ SubSeq(statsFile'.calculations, 1, Len(statsFile.calculations))
                = statsFile.calculations
          /\ statsFile'.calculations[Len(statsFile'.calculations)].timestamp = runs]_vars

----------------------------------------------------------------------------
(* Structural failures (C19) *)

StructuralFailure == game \notin DOMAIN Catalog \/ Catalog[game].cap <= 0

----------------------------------------------------------------------------
(* get_device_info (modules/device/info.py) and the profile it hands to the engine *)

\* A resolution "WxH" is the pair <<W, H>>; a refresh rate is held in whole Hz.
\* The session dict get_device_info holds at line 279, as far as lines 298-392 read it:
\* values this function stored in an earlier run
SessionDict(resolution, dpi, refresh_rate) ==
    [resolution |-> resolution, dpi |-> dpi, refresh_rate |-> refresh_rate]

\* Python truthiness of session.get(key) for a number: None and 0 are falsy
TruthyNumber(o) == o # None /\ Val(o) # 0

\* the first probe of a chain that produced a value, None when every probe failed
RECURSIVE FirstFound(_)
FirstFound(probes) ==
    IF probes = <<>> THEN None
    ELSE IF Head(probes) # None THEN Head(probes)
    ELSE FirstFound(Tail(probes))

\* the first typed number a manual prompt accepts (it loops until an entry is positive),
\* None while none is accepted; an entry that is not a number is None
RECURSIVE FirstPositive(_)
FirstPositive(entries) ==
    IF entries = <<>> THEN None
    ELSE IF Head(entries) # None /\ Val(Head(entries)) > 0 THEN Head(entries)
    ELSE FirstPositive(Tail(entries))

\* info.py:190-198: the first entry of the form digits x digits is accepted; an entry that
\* does not match the format is None
get_manual_resolution(entries) == FirstFound(entries)

\* info.py:219-227
get_manual_dpi(entries) == FirstPositive(entries)

\* info.py:248-260
get_manual_refresh_rate(entries) == FirstPositive(entries)

\* info.py:298-326: session value, wm size, GSMArena, dumpsys, manual input
DetectResolution(session, probes, typed) ==
    IF session.resolution # None THEN session.resolution
    ELSE IF FirstFound(probes) # None THEN FirstFound(probes)
    ELSE get_manual_resolution(typed)

\* info.py:328-359: session value, wm density, getprop, dumpsys, manual input
DetectDpi(session, probes, typed) ==
    IF TruthyNumber(session.dpi) THEN session.dpi
    ELSE IF FirstFound(probes) # None THEN FirstFound(probes)
    ELSE get_manual_dpi(typed)

\* info.py:361-392: session value, dumpsys refreshRate=, dumpsys refresh rate, getprop,
\* manual input
DetectRefreshRate(session, probes, typed) ==
    IF TruthyNumber(session.refresh_rate) THEN session.refresh_rate
    ELSE IF FirstFound(probes) # None THEN FirstFound(probes)
    ELSE get_manual_refresh_rate(typed)

\* the largest k in lo..hi with k * k <= n
RECURSIVE IsqrtBetween(_, _, _)
IsqrtBetween(n, lo, hi) ==
    IF lo = hi THEN lo
    ELSE LET mid == (lo + hi + 1) \div 2
         IN  IF mid * mid <= n THEN IsqrtBetween(n, mid, hi)
             ELSE IsqrtBetween(n, lo, mid - 1)

\* info.py:395-396: round(math.sqrt(width**2 + height**2) / dpi, 2) in hundredths of an
\* inch, for dpi > 0; the diagonal is taken to a tenth of a pixel
screen_size(resolution, dpi) ==
    LET diagonal == IsqrtBetween(100 * (resolution[1] * resolution[1]
                                        + resolution[2] * resolution[2]), 0, 46340)
    IN  RoundDiv(10 * diagonal, dpi)

\* info.py:398-404
GyroGate(gyro_data, test_passed) ==
    IF TruthyNumber(gyro_data) /\ test_passed THEN gyro_data ELSE None

\* what the shell, the network and the user give one call of get_device_info
DeviceInput(identified, session, sizes, typedSize, densities, typedDpi, rates, typedRate, gyro_data, test_passed) ==
    [identified |-> identified, session |-> session,
     sizes |-> sizes, typedSize |-> typedSize,
     densities |-> densities, typedDpi |-> typedDpi,
     rates |-> rates, typedRate |-> typedRate,
     gyro_data |-> gyro_data, test_passed |-> test_passed]

NoProbe == <<None, None, None>>

\* resolution sources: a stored value, or one of the three probes, or typed entries
ResolutionSources ==
    { <<Some(<<1080, 2400>>), NoProbe, <<>>>>,
      <<Some(<<0, 0>>), NoProbe, <<>>>>,
      <<None, <<Some(<<1080, 2400>>), None, None>>, <<>>>>,
      <<None, <<Some(<<0, 0>>), None, None>>, <<>>>>,
      <<None, <<None, Some(<<720, 1280>>), None>>, <<>>>>,
      <<None, <<None, None, Some(<<1440, 3200>>)>>, <<>>>>,
      <<None, NoProbe, <<Some(<<1080, 2400>>)>>>>,
      <<None, NoProbe, <<None, Some(<<0, 0>>)>>>>,
      <<None, NoProbe, <<Some(<<1, 1>>)>>>> }

\* DPI sources
DpiSources ==
    { <<Some(440), NoProbe, <<>>>>,
      <<None, <<Some(440), None, None>>, <<>>>>,
      <<Some(0), <<Some(0), None, None>>, <<>>>>,
      <<None, <<None, Some(220), None>>, <<>>>>,
      <<None, <<None, None, Some(880)>>, <<>>>>,
      <<None, NoProbe, <<Some(420)>>>>,
      <<None, NoProbe, <<Some(0), Some(-440), Some(440)>>>> }

\* refresh rate sources
RefreshSources ==
    { <<Some(120), NoProbe, <<>>>>,
      <<None, <<Some(120), None, None>>, <<>>>>,
      <<Some(0), <<Some(0), None, None>>, <<>>>>,
      <<None, <<None, Some(60), None>>, <<>>>>,
      <<None, <<None, Some(0), None>>, <<>>>>,
      <<None, <<None, None, Some(144)>>, <<>>>>,
      <<None, NoProbe, <<Some(90)>>>>,
      <<None, NoProbe, <<None, Some(0), Some(-60), Some(60)>>>> }

GyroSources == { <<None, FALSE>>, <<Some(25000), TRUE>>, <<Some(25000), FALSE>>,
                 <<Some(0), TRUE>> }

DeviceInputs ==
    { DeviceInput(identified, SessionDict(r[1], d[1], h[1]), r[2], r[3], d[2], d[3],
                  h[2], h[3], g[1], g[2]) :
        identified \in BOOLEAN, r \in ResolutionSources, d \in DpiSources,
        h \in RefreshSources, g \in GyroSources }

\* info.py:279-432 for one input: the outcome of the call. "exit" is the handler at
\* lines 428-432 (a ValueError of lines 282-296 or the ZeroDivisionError of line 396)
get_device_info(in) ==
    LET resolution == DetectResolution(in.session, in.sizes, in.typedSize)
        dpi == DetectDpi(in.session, in.densities, in.typedDpi)
        refresh_rate == DetectRefreshRate(in.session, in.rates, in.typedRate)
    IN  IF ~in.identified \/ Val(dpi) = 0
        THEN [outcome |-> "exit", info |-> None]
        ELSE [outcome |-> "return",
              info |-> Some(Device("model", Val(dpi), Val(refresh_rate),
                                   screen_size(Val(resolution), Val(dpi)),
                                   GyroGate(in.gyro_data, in.test_passed)))]

\* the player styles get_player_style hands to main
PlayerStyles == { p.style : p \in Profiles }

InitDevice ==
    /\ pc = "menu"
    /\ game \in Games
    /\ mode = ""
    /\ info = None
    /\ player_style = None
    /\ cam_sense = None
    /\ fire_sense = None
    /\ gyro_sense = None
    /\ news_adjust = None
    /\ adjustments = None
    /\ adjust = None
    /\ hist = <<>>
    /\ failedAt = ""
    /\ feedbackFailed = FALSE
    /\ feedbackFile = FeedbackFile(FALSE, "invalid", <<1, 1>>, <<1, 1>>, <<1, 1>>)
    /\ resultTxt = None
    /\ resultJson = None
    /\ statsFile = StatsFile(FALSE, FALSE, FALSE, <<>>)
    /\ displayed = None
    /\ SideIdle
    /\ runs = 0

\* main.py:56-60 with get_device_info returning: the profile and the player style are
\* handed to calculate_sensitivity
GetDeviceInfo ==
    /\ pc = "menu"
    /\ runs < MaxCalcs
    /\ \E in \in DeviceInputs, style \in PlayerStyles :
          /\ get_device_info(in).outcome = "return"
          /\ info' = get_device_info(in).info
          /\ player_style' = Some(style)
    /\ runs' = runs + 1
    /\ pc' = "base"
    /\ UNCHANGED <<game, mode, cam_sense, fire_sense, gyro_sense, news_adjust, adjustments,
                   adjust, hist, failedAt, feedbackFailed, files, side>>

\* info.py:428-432: exit(1) ends the process before calculate_sensitivity is called
GetDeviceInfoExits ==
    /\ pc = "menu"
    /\ runs < MaxCalcs
    /\ \E in \in DeviceInputs : get_device_info(in).outcome = "exit"
    /\ pc' = "exited"
    /\ UNCHANGED <<cam_sense, fire_sense, gyro_sense, news_adjust, adjustments, adjust, hist,
                   failedAt, feedbackFailed, files, inputs, side>>

NextDevice ==
    \/ GetDeviceInfo
    \/ GetDeviceInfoExits

SpecDevice == InitDevice /\ [][NextDevice]_vars

\* the profile of the call has three positive fields
PositiveProfile(i) == i.DPI > 0 /\ i.RefreshRate > 0 /\ i.ScreenSize > 0

----------------------------------------------------------------------------
(* load_session (modules/utils/session.py) and its callers *)

\* session.py:38 evaluates json.path.exists: the json module has no attribute path (os.path
\* is the module that has exists), so the lookup raises AttributeError whatever the file holds
JsonHasPath == FALSE

\* session.py:31-47: the outcome of one call
load_session(file) ==
    IF ~JsonHasPath THEN [raises |-> TRUE, value |-> None]
    ELSE IF ~file.exists THEN [raises |-> FALSE, value |-> Some(EmptySession)]
    ELSE IF ~file.valid THEN [raises |-> FALSE, value |-> Some(EmptySession)]
    ELSE [raises |-> FALSE, value |-> Some(SessionData(file))]

\* the caller's first step: the exception of load_session is handled nowhere (info.py:277
\* stands before the try of line 279, player.py:36 is in no try, main.py:58-59 neither), so
\* the process ends with a traceback; otherwise the caller goes on with the dict
CallLoadSession(next) ==
    /\ LET r == load_session(sessionFile)
       IN  IF r.raises
           THEN /\ pc' = "crashed"
                /\ UNCHANGED loadedSession
           ELSE /\ pc' = next
                /\ loadedSession' = r.value
    /\ UNCHANGED <<sessionFile, cam_sense, fire_sense, gyro_sense, news_adjust, adjustments,
                   adjust, hist, failedAt, feedbackFailed, files, inputs, maint>>

\* info.py:277
DeviceLoadSession ==
    /\ pc = "get_device_info"
    /\ CallLoadSession("device")

\* player.py:36
StyleLoadSession ==
    /\ pc = "get_player_style"
    /\ CallLoadSession("style")

InitSession ==
    /\ pc \in {"get_device_info", "get_player_style"}
    /\ game \in {"Blood Strike", "Free Fire"}
    /\ mode = ""
    /\ info = None
    /\ player_style = None
    /\ cam_sense = None
    /\ fire_sense = None
    /\ gyro_sense = None
    /\ news_adjust = None
    /\ adjustments = None
    /\ adjust = None
    /\ hist = <<>>
    /\ failedAt = ""
    /\ feedbackFailed = FALSE
    /\ feedbackFile = FeedbackFile(FALSE, "invalid", <<1, 1>>, <<1, 1>>, <<1, 1>>)
    /\ resultTxt = None
    /\ resultJson = None
    /\ statsFile = StatsFile(FALSE, FALSE, FALSE, <<>>)
    /\ displayed = None
    /\ runs = 0
    /\ sessionFile \in SessionFiles
    /\ loadedSession = None
    /\ MaintIdle

NextSession ==
    \/ DeviceLoadSession
    \/ StyleLoadSession

SpecSession == InitSession /\ [][NextSession]_vars

\* the dict the docstring of load_session promises for a session file
PromisedSession(file) ==
    IF file.exists /\ file.valid THEN SessionData(file) ELSE EmptySession

\* C21: load_session never raises: its callers get_device_info and get_player_style always
\* proceed past it, with the empty dict when the session file does not exist or cannot be
\* loaded and with the stored data otherwise.
C21_LoadSessionNeverRaises ==
    /\ pc # "crashed"
    /\ pc \in {"device", "style"} => loadedSession = Some(PromisedSession(sessionFile))

----------------------------------------------------------------------------
(* Two calls of calculate_sensitivity with the same arguments (C22) *)

InitAgain ==
    /\ pc = "base"
    /\ game \in Games
    /\ mode = ""
    /\ \E p \in Profiles :
          /\ info = Some(p.info)
          /\ player_style = Some(p.style)
    /\ cam_sense = None
    /\ fire_sense = None
    /\ gyro_sense = None
    /\ news_adjust = None
    /\ adjustments = None
    /\ adjust = None
    /\ hist = <<>>
    /\ failedAt = ""
    /\ feedbackFailed = FALSE
    /\ feedbackFile \in FeedbackFiles
    /\ resultTxt = None
    /\ resultJson = None
    /\ statsFile \in StatsFiles(game)
    /\ displayed = None
    /\ runs = 1
    /\ sessionFile \in {SessionFile(FALSE, FALSE, 0, 0, 0), SessionFile(TRUE, TRUE, 2, 2, 440)}
    /\ loadedSession = None
    /\ MaintIdle

\* between two calculations the feedback file, the stats log, the session file and the
\* result files change in any way (main.py:68-104: feedback collection, statistics and the
\* other menu choices; the file system outside the program); hist keeps the BASE tables of
\* the first call for the comparison
FilesChange ==
    /\ pc = "news"
    /\ feedbackFile' \in FeedbackFiles
    /\ statsFile' \in StatsFiles(game)
    /\ sessionFile' \in {SessionFile(FALSE, FALSE, 0, 0, 0), SessionFile(TRUE, TRUE, 2, 2, 440)}
    /\ resultTxt' \in {None, Some(TextReport(runs, game, gyro_sense))}
    /\ pc' = "base again"
    /\ UNCHANGED <<cam_sense, fire_sense, gyro_sense, news_adjust, adjustments, adjust, hist,
                   failedAt, feedbackFailed, resultJson, displayed, inputs, loadedSession,
                   maint>>

\* calculator.py:44-114 in a second call with the arguments of the first
ComputeBaseAgain ==
    /\ pc = "base again"
    /\ LET base == adjusted_base(Val(info), Val(player_style), game)
       IN  /\ cam_sense' = Some(CamBase(base))
           /\ fire_sense' = Some(FireBase(base))
           /\ gyro_sense' = GyroBase(Val(info), base)
    /\ pc' = "again"
    /\ UNCHANGED <<news_adjust, adjustments, adjust, hist, failedAt, feedbackFailed, files,
                   inputs, side>>

NextAgain ==
    \/ ComputeBase
    \/ ComputeBaseRaises
    \/ FilesChange
    \/ ComputeBaseAgain

SpecAgain == InitAgain /\ [][NextAgain]_vars

----------------------------------------------------------------------------
(* fetch_game_news on its own (C23) *)

\* the mode argument: empty, a mode of some game, or a mode no game has
FetchModes == {""} \cup UNION {ModeNames(g) : g \in DOMAIN NewsData} \cup {"Zombies"}

InitFetch ==
    /\ pc = "fetch_game_news"
    /\ game \in DOMAIN NewsData \cup {"Unknown Game"}
    /\ mode \in FetchModes
    /\ info = None
    /\ player_style = None
    /\ cam_sense = None
    /\ fire_sense = None
    /\ gyro_sense = None
    /\ news_adjust = None
    /\ adjustments = None
    /\ adjust = None
    /\ hist = <<>>
    /\ failedAt = ""
    /\ feedbackFailed = FALSE
    /\ feedbackFile = FeedbackFile(FALSE, "invalid", <<1, 1>>, <<1, 1>>, <<1, 1>>)
    /\ resultTxt = None
    /\ resultJson = None
    /\ statsFile = StatsFile(FALSE, FALSE, FALSE, <<>>)
    /\ displayed = None
    /\ SideIdle
    /\ runs = 0

\* news.py:14-143: one call; shown is the number of posts displayed before the cut-off of
\* line 117
FetchNews ==
    /\ pc = "fetch_game_news"
    /\ \E shown \in 0..Len(news_items(game, mode)) :
          news_adjust' = Some(fetch_game_news(game, mode, shown))
    /\ pc' = "fetched"
    /\ UNCHANGED <<cam_sense, fire_sense, gyro_sense, adjustments, adjust, hist, failedAt,
                   feedbackFailed, files, inputs, side>>

NextFetch == FetchNews

SpecFetch == InitFetch /\ [][NextFetch]_vars

\* every post mock data holds for the arguments, before any cut: the posts of the mode if
\* the game has the mode, the posts of all modes of the game otherwise
AllPosts(g, m) ==
    IF g \notin DOMAIN NewsData THEN <<>>
    ELSE IF m # "" /\ \E k \in 1..Len(NewsData[g]) : NewsData[g][k][1] = m
    THEN NewsData[g][CHOOSE k \in 1..Len(NewsData[g]) : NewsData[g][k][1] = m][2]
    ELSE Extend(NewsData[g], 1)

\* C23: bounded sentiment input: for every game and mode (the empty mode combines the
\* posts of all modes) at most 7 posts contribute to the mean, the factor lies in
\* [0.95, 1.05], and a post with an unknown sentiment label adds 0 to the sum and 1 to the
\* denominator.
C23_BoundedSentiment ==
    news_adjust # None =>
        LET f == Val(news_adjust).cam_adjust
            posts == AllPosts(game, mode)
        IN  /\ RLe(<<19, 20>>, f) /\ RLe(f, <<21, 20>>)
            /\ \E k \in 0..7 :
                  /\ k <= Len(posts)
                  /\ IF k = 0 THEN f = <<1, 1>> ELSE RatEq(f, MeanFactor(posts, k))

\* nine posts are on offer and seven were shown, one of them with the label "mixed":
\* 1 + (5 * 0.05 - 1 * 0.05 + 0) / 7 = 1 + 0.2 / 7 = 36/35
C23_Witness ==
    /\ pc = "fetched"
    /\ game = "Busy Game"
    /\ mode = "Ranked"
    /\ Len(AllPosts(game, mode)) = 9
    /\ news_adjust = Some(Uniform(<<36, 35>>))

----------------------------------------------------------------------------
(* collect_feedback (feedback.py:18-118), menu choice 2 (main.py:68-71) *)

\* collect_feedback calls that save, in one run of the program
MaxFeedback == 2

\* the answers IntPrompt.ask accepts: 1 too high, 2 too low, 3 just right, 4 skip (gyro)
CamAnswers == 1..3
FireAnswers == 1..3
GyroAnswers == 1..4

\* the factor kept from the previous file and multiplied by the new one
feedback_factorMutCompound(answer) ==
    LET prev == IF feedbackFile.exists /\ feedbackFile.json = "object"
                   /\ IsNumber(feedbackFile.cam_adjust)
                THEN feedbackFile.cam_adjust ELSE <<1, 1>>
    IN  IF answer = 1 THEN RMul(prev, <<9, 10>>)
        ELSE IF answer = 2 THEN RMul(prev, <<11, 10>>)
        ELSE prev

\* feedback.py:91-107: the dict starts from 1.0 for each key; answer 1 stores 0.9, answer 2
\* stores 1.1, every other answer leaves the 1.0
feedback_factor(answer) ==
    IF answer = 1 THEN <<9, 10>>
    ELSE IF answer = 2 THEN <<11, 10>>
    ELSE <<1, 1>>

\* feedback.py:91-107: the dict handed to json.dump
feedback_dict(cam_feedback, fire_feedback, gyro_feedback) ==
    FeedbackFile(TRUE, "object", feedback_factor(cam_feedback), feedback_factor(fire_feedback),
                 feedback_factor(gyro_feedback))

\* feedback.py:110-116: open(FEEDBACK_FILE, "w") and json.dump inside try/except Exception.
\* "saved": the file holds the dict; "open failed": open raised and the file is as it was;
\* "write failed": the file was truncated by open and the write raised
SaveOutcomes == {"saved", "open failed", "write failed"}

save_feedback(file, feedback, outcome) ==
    IF outcome = "saved" THEN feedback
    ELSE IF outcome = "open failed" THEN file
    ELSE FeedbackFile(TRUE, "invalid", <<1, 1>>, <<1, 1>>, <<1, 1>>)

\* no feedback file
NoFeedbackFile == FeedbackFile(FALSE, "invalid", <<1, 1>>, <<1, 1>>, <<1, 1>>)

\* what one call of collect_feedback leaves in feedbackAnswers: the three answers, whether
\* the save succeeded, and the file the save replaced (no file if nothing was saved)
Answers(cam, fire, gyro, saved, found) ==
    [cam_feedback |-> cam, fire_feedback |-> fire, gyro_feedback |-> gyro, saved |-> saved,
     replaced |-> IF saved THEN found ELSE NoFeedbackFile]

\* main.py:68-71 and feedback.py:18-118: the three prompts, the dict, the save; nothing
\* else is written (the stats log in particular is not touched)
CollectFeedback ==
    /\ pc = "menu"
    /\ submissions < MaxFeedback
    /\ \E cam \in CamAnswers, fire \in FireAnswers, gyro \in GyroAnswers, out \in SaveOutcomes :
          /\ feedbackFile' = save_feedback(feedbackFile, feedback_dict(cam, fire, gyro), out)
          /\ feedbackAnswers' = Some(Answers(cam, fire, gyro, out = "saved", feedbackFile))
          /\ submissions' = IF out = "saved" THEN submissions + 1 ELSE submissions
    /\ pc' = "menu"
    /\ UNCHANGED <<cam_sense, fire_sense, gyro_sense, news_adjust, adjustments, adjust, hist,
                   failedAt, feedbackFailed, resultTxt, resultJson, statsFile, displayed,
                   inputs, sessionFile, loadedSession, updateFile, check, gyroProbe>>

\* the program at the menu with any feedback file
InitFeedback ==
    /\ pc = "menu"
    /\ game \in Games
    /\ mode = ""
    /\ info = None
    /\ player_style = None
    /\ cam_sense = None
    /\ fire_sense = None
    /\ gyro_sense = None
    /\ news_adjust = None
    /\ adjustments = None
    /\ adjust = None
    /\ hist = <<>>
    /\ failedAt = ""
    /\ feedbackFailed = FALSE
    /\ feedbackFile \in FeedbackFiles
    /\ resultTxt = None
    /\ resultJson = None
    /\ statsFile = StatsFile(FALSE, FALSE, FALSE, <<>>)
    /\ displayed = None
    /\ SideIdle
    /\ runs = 0

NextFeedback == CollectFeedback \/ MenuExit

SpecFeedback == InitFeedback /\ [][NextFeedback]_vars

\* the factor the claim gives for an answer: 0.9 too high, 1.1 too low, 1.0 just right
\* and skip
PromisedFactor(answer) ==
    CASE answer = 1 -> <<9, 10>>
      [] answer = 2 -> <<11, 10>>
      [] answer = 3 -> <<1, 1>>
      [] answer = 4 -> <<1, 1>>

\* C24: collect_feedback stores a triple whose components are chosen independently: each
\* of cam_adjust, fire_adjust, gyro_adjust is 0.9 for "too high", 1.1 for "too low" and
\* 1.0 for "just right", gyro "skip" gives 1.0, and the stored triple replaces the previous
\* one entirely instead of compounding with it (the file after a saving call depends on
\* the three answers only, whatever file the call found).
C24_StoredTripleFromAnswers ==
    (feedbackAnswers # None /\ Val(feedbackAnswers).saved) =>
        LET a == Val(feedbackAnswers)
        IN  /\ feedbackFile.exists
            /\ feedbackFile.json = "object"
            /\ feedbackFile.cam_adjust = PromisedFactor(a.cam_feedback)
            /\ feedbackFile.fire_adjust = PromisedFactor(a.fire_feedback)
            /\ feedbackFile.gyro_adjust = PromisedFactor(a.gyro_feedback)

\* the call found (0.9, 1.1, 0.9) from an earlier call and was answered too low, too high,
\* skip: the file holds (1.1, 0.9, 1.0)
C24_Witness ==
    /\ submissions = 2
    /\ feedbackAnswers # None
    /\ Val(feedbackAnswers).saved
    /\ Val(feedbackAnswers).replaced = FeedbackFile(TRUE, "object", <<9, 10>>, <<11, 10>>, <<9, 10>>)
    /\ Val(feedbackAnswers).cam_feedback = 2
    /\ Val(feedbackAnswers).fire_feedback = 1
    /\ Val(feedbackAnswers).gyro_feedback = 4
    /\ feedbackFile = FeedbackFile(TRUE, "object", <<11, 10>>, <<9, 10>>, <<1, 1>>)

----------------------------------------------------------------------------
(* Repeated calculations with the same inputs and an unchanged feedback file (C25) *)

\* calculations that follow the first with the same inputs
MaxRepeats == 2

\* the feedback files collect_feedback can write
WrittenFeedback ==
    { feedback_dict(cam, fire, gyro) : cam \in CamAnswers, fire \in FireAnswers, gyro \in GyroAnswers }

\* no feedback file, a file written by collect_feedback, or a file edited by hand that
\* holds three numbers
NumericFeedbackFiles ==
    WrittenFeedback \cup
    { f \in FeedbackFiles :
        \/ ~f.exists
        \/ /\ f.json = "object"
           /\ IsNumber(f.cam_adjust) /\ IsNumber(f.fire_adjust) /\ IsNumber(f.gyro_adjust) }

\* calculate_sensitivity has been entered for the first time
InitRepeat ==
    /\ pc = "base"
    /\ game \in Games
    /\ mode = ""
    /\ \E p \in Profiles :
          /\ info = Some(p.info)
          /\ player_style = Some(p.style)
    /\ cam_sense = None
    /\ fire_sense = None
    /\ gyro_sense = None
    /\ news_adjust = None
    /\ adjustments = None
    /\ adjust = None
    /\ hist = <<>>
    /\ failedAt = ""
    /\ feedbackFailed = FALSE
    /\ feedbackFile \in NumericFeedbackFiles
    /\ resultTxt = None
    /\ resultJson = None
    /\ statsFile = StatsFile(FALSE, FALSE, FALSE, <<>>)
    /\ displayed = None
    /\ SideIdle
    /\ runs = 1

\* main.py:56-60: menu choice 1 again with the device info and the player style of the
\* call before. The rest of that call (calculator.py:139-149, main.py:62-66) works on the
\* tables of that call and on the result files and touches neither the inputs nor the
\* feedback file; hist keeps the stages of the first call for the comparison
CalculateAgain ==
    /\ pc \in {"preview", "repeated"}
    /\ runs < 1 + MaxRepeats
    /\ runs' = runs + 1
    /\ cam_sense' = None
    /\ fire_sense' = None
    /\ gyro_sense' = None
    /\ feedbackFailed' = FALSE
    /\ pc' = "base again"
    /\ UNCHANGED <<game, mode, info, player_style, news_adjust, adjustments, adjust, hist,
                   failedAt, files, side>>

\* calculator.py:116-122 in a later call: the posts are the posts of the first call, so
\* fetch_game_news returns the factor it returned then
NewsStageAgain ==
    /\ pc = "again"
    /\ news_adjust # None
    /\ LET tabs == ApplyFactor(Tables, Val(news_adjust), MAX_SENS(game))
       IN  /\ cam_sense' = Some(tabs.cam)
           /\ fire_sense' = Some(tabs.fire)
           /\ gyro_sense' = tabs.gyro
    /\ pc' = "feedback again"
    /\ UNCHANGED <<news_adjust, adjustments, adjust, hist, failedAt, feedbackFailed, files,
                   inputs, side>>

\* calculator.py:124-136 in a later call
FeedbackStageAgain ==
    /\ pc = "feedback again"
    /\ IF FeedbackExists(feedbackFile)
       THEN LET r == ApplyFeedback(Tables, feedbackFile, MAX_SENS(game))
            IN  /\ cam_sense' = Some(r.tabs.cam)
                /\ fire_sense' = Some(r.tabs.fire)
                /\ gyro_sense' = r.tabs.gyro
                /\ feedbackFailed' = r.raised
       ELSE UNCHANGED <<cam_sense, fire_sense, gyro_sense, feedbackFailed>>
    /\ pc' = "repeated"
    /\ UNCHANGED <<news_adjust, adjustments, adjust, hist, failedAt, files, inputs, side>>

NextRepeat ==
    \/ ComputeBase
    \/ ComputeBaseRaises
    \/ NewsStage
    \/ FeedbackStage
    \/ CalculateAgain
    \/ ComputeBaseAgain
    \/ NewsStageAgain
    \/ FeedbackStageAgain

SpecRepeat == InitRepeat /\ [][NextRepeat]_vars

\* the stored factor applied once to the entries of a snapshot
OnceApplied(news, file, cap) ==
    [cam  |-> [s \in ScopeSet |-> Adjusted(news.cam[s], file.cam_adjust, cap)],
     fire |-> [s \in ScopeSet |-> Adjusted(news.fire[s], file.fire_adjust, cap)],
     gyro |-> IF news.gyro = None THEN None
              ELSE Some([s \in ScopeSet |-> Adjusted(Val(news.gyro)[s], file.gyro_adjust, cap)])]

----------------------------------------------------------------------------
(* The scope ladder through the news and feedback stages (C26) *)

\* the profiles of a calculation and, for one style, the devices of the grid at 120 Hz
LadderInputs ==
    Profiles \cup
    { [info |-> d, style |-> Style(3, "advanced", "thumb", TRUE)] :
        d \in {e \in DeviceGrid : e.RefreshRate = 120} }

\* calculate_sensitivity has been entered; feedback.json is absent or was written by
\* collect_feedback
InitLadder ==
    /\ pc = "base"
    /\ game \in Games
    /\ mode = ""
    /\ \E p \in LadderInputs :
          /\ info = Some(p.info)
          /\ player_style = Some(p.style)
    /\ cam_sense = None
    /\ fire_sense = None
    /\ gyro_sense = None
    /\ news_adjust = None
    /\ adjustments = None
    /\ adjust = None
    /\ hist = <<>>
    /\ failedAt = ""
    /\ feedbackFailed = FALSE
    /\ feedbackFile \in WrittenFeedback \cup {NoFeedbackFile}
    /\ resultTxt = None
    /\ resultJson = None
    /\ statsFile = StatsFile(FALSE, FALSE, FALSE, <<>>)
    /\ displayed = None
    /\ SideIdle
    /\ runs = 1

\* calculator.py:44-136
NextLadder ==
    \/ ComputeBase
    \/ ComputeBaseRaises
    \/ NewsStage
    \/ FeedbackStage

SpecLadder == InitLadder /\ [][NextLadder]_vars

\* a table does not increase from one scope to the next
NonIncreasing(table) ==
    \A k \in 1..(Len(ScopeOrder) - 1) : table[ScopeOrder[k]] >= table[ScopeOrder[k + 1]]

\* C26: the scope ladder survives the non-interactive stages: the firing and gyro BASE
\* tables are non-increasing along the scope order, and for every sentiment factor and
\* every stored feedback written by collect_feedback the camera, firing and gyro tables are
\* still non-increasing after NEWS_ADJUSTED and after FEEDBACK_ADJUSTED, clamping and
\* rounding included.
C26_LadderSurvivesStages ==
    \A k \in 1..Len(hist) :
        /\ hist[k].stage \in {"NEWS_ADJUSTED", "FEEDBACK_ADJUSTED"} => NonIncreasing(hist[k].cam)
        /\ NonIncreasing(hist[k].fire)
        /\ hist[k].gyro # None => NonIncreasing(Val(hist[k].gyro))

\* a gyro table whose first two BASE entries exceed the cap of 300 and are cut to it by the
\* news stage, then lowered by a stored gyro factor of 0.9: the ladder holds with equal
\* neighbours
C26_Witness ==
    /\ pc = "preview"
    /\ Len(hist) = 3
    /\ hist[1].gyro # None
    /\ Val(hist[1].gyro)["Iron Sight"] > 3000
    /\ Val(hist[2].gyro)["No ADS"] = 3000
    /\ Val(hist[2].gyro)["Iron Sight"] = 3000
    /\ feedbackFile.gyro_adjust = <<9, 10>>
    /\ Val(hist[3].gyro)["No ADS"] = 2700
    /\ hist[3].cam["No ADS"] > hist[3].cam["8x Scope"]

----------------------------------------------------------------------------
(* Calculations and feedback collection in one run of the program (C27) *)

\* the program at the menu on a fresh data directory or one with an earlier stats log; no
\* feedback has been collected, and the log counts none
InitCount ==
    /\ pc = "menu"
    /\ game = "Free Fire"
    /\ mode = ""
    /\ info = None
    /\ player_style = None
    /\ cam_sense = None
    /\ fire_sense = None
    /\ gyro_sense = None
    /\ news_adjust = None
    /\ adjustments = None
    /\ adjust = None
    /\ hist = <<>>
    /\ failedAt = ""
    /\ feedbackFailed = FALSE
    /\ feedbackFile = FeedbackFile(FALSE, "invalid", <<1, 1>>, <<1, 1>>, <<1, 1>>)
    /\ resultTxt = None
    /\ resultJson = None
    /\ statsFile \in StatsFiles(game)
    /\ displayed = None
    /\ SideIdle
    /\ runs = 0

\* main.py:56-66, menu choice 1 from the prompt to the return to the menu, as far as the
\* files are concerned: calculate_sensitivity returns tables unless a lookup of lines 50-74
\* or a console write of a later stage raised (calculator.py:146-149); a gyro table is
\* returned exactly if the BASE stage built one; the result is displayed, saved and logged
\* by update_stats, which adds 1 to feedback_count if data/feedback.json exists
CalculateAndLog ==
    /\ pc = "menu"
    /\ runs < MaxCalcs
    /\ runs' = runs + 1
    /\ \E p \in Profiles, raised \in BOOLEAN :
          IF raised \/ BaseRaises(p.style, game)
          THEN UNCHANGED <<displayed, resultTxt, resultJson, statsFile>>
          ELSE LET gyro == GyroBase(p.info, adjusted_base(p.info, p.style, game))
                   result == ResultRecord(runs', game, gyro)
               IN  /\ displayed' = Some(runs')
                   /\ resultTxt' = Some(TextReport(runs', game, gyro))
                   /\ resultJson' = Some(result)
                   /\ statsFile' = IF UpdateStatsRaises(statsFile) THEN statsFile
                                   ELSE update_stats(statsFile, result, FeedbackExists(feedbackFile))
    /\ pc' = "menu"
    /\ UNCHANGED <<game, mode, info, player_style, cam_sense, fire_sense, gyro_sense,
                   news_adjust, adjustments, adjust, hist, failedAt, feedbackFailed,
                   feedbackFile, side>>

\* main.py:53-104: the menu with choices 1 and 2
NextCount == CalculateAndLog \/ CollectFeedback

SpecCount == InitCount /\ [][NextCount]_vars

\* C27: the "Feedback Submissions" figure counts feedback submissions: after any sequence
\* of calculations and collect_feedback calls, the feedback_count stored in the stats log
\* equals the number of collect_feedback calls that saved feedback.
C27_FeedbackCountIsSubmissions ==
    (pc = "menu" /\ statsFile.exists /\ statsFile.valid /\ statsFile.complete) =>
        statsFile.feedback_count = submissions

----------------------------------------------------------------------------
(* The gyro detection of get_device_info (info.py:398-404, gyro.py:92-218) *)

\* a Python float of the gyro detection, in thousandths of a radian per second; float("nan")
\* is a value of its own, and every comparison with it is false
Float(thousandths) == <<thousandths>>
IsNaN(x) == x = <<>>
NaNFloat == <<>>

\* x <= 0 and x > 0 for Python floats
FloatLeZero(x) == ~IsNaN(x) /\ x[1] <= 0
FloatGtZero(x) == ~IsNaN(x) /\ x[1] > 0

\* the truth value of a float: 0.0 is falsy, every other float (nan included) is truthy
TruthyFloat(x) == IsNaN(x) \/ x[1] # 0

MinOf(values) == CHOOSE v \in {values[k] : k \in 1..Len(values)} : \A k \in 1..Len(values) : v <= values[k]
MaxOf(values) == CHOOSE v \in {values[k] : k \in 1..Len(values)} : \A k \in 1..Len(values) : v >= values[k]

\* gyro.py:120-125 and 199-205: the sensor output parsed and holding at least three values,
\* one of them above 0.1 in size; a reading of <<>> is output that is no such JSON
ValidReading(values) ==
    Len(values) >= 3 /\ \E k \in 1..Len(values) : Abs(values[k]) > 100

\* gyro.py:92-178: None without Termux:API; the largest absolute value of a valid reading;
\* otherwise the range the user types after answering 1, unless range_value <= 0
get_gyro_data(in) ==
    IF ~in.termux THEN None
    ELSE IF ValidReading(in.reading)
    THEN Some(Float(IF Abs(MinOf(in.reading)) >= Abs(MaxOf(in.reading))
                    THEN Abs(MinOf(in.reading)) ELSE Abs(MaxOf(in.reading))))
    ELSE IF in.choice = 1
    THEN IF FloatLeZero(in.range_value) THEN None ELSE Some(in.range_value)
    ELSE None

\* gyro.py:180-218: True exactly for a valid reading
test_gyro(in) == ValidReading(in.test_reading)

\* info.py:398-403: gyro_range is kept if it is truthy and the test passed; test_gyro is
\* not called for a falsy gyro_range
GyroRangeOf(in) ==
    LET gyro_range == get_gyro_data(in)
    IN  IF gyro_range # None /\ TruthyFloat(Val(gyro_range)) /\ test_gyro(in)
        THEN gyro_range ELSE None

\* the sensor readings: no JSON, a device at rest, a device in motion, two values only
Readings == { <<>>, <<0, 10, 0>>, <<500, -2500, 200>>, <<-100, 101, 0>>, <<500, 200>> }

\* the floats FloatPrompt.ask returns: the default 10.0, 0, a negative number, the smallest
\* step above 0, and nan
TypedRanges == { Float(10000), Float(0), Float(-5000), Float(1), NaNFloat }

GyroInput(termux, reading, choice, range_value, test_reading) ==
    [termux |-> termux, reading |-> reading, choice |-> choice, range_value |-> range_value,
     test_reading |-> test_reading]

GyroInputs ==
    { GyroInput(t, r, c, v, tr) :
        t \in BOOLEAN, r \in Readings, c \in 1..2, v \in TypedRanges, tr \in Readings }

\* get_device_info has reached line 398 with the readings and answers it is going to get
InitGyro ==
    /\ pc = "get_gyro_data"
    /\ game \in Games
    /\ mode = ""
    /\ info = None
    /\ player_style = None
    /\ cam_sense = None
    /\ fire_sense = None
    /\ gyro_sense = None
    /\ news_adjust = None
    /\ adjustments = None
    /\ adjust = None
    /\ hist = <<>>
    /\ failedAt = ""
    /\ feedbackFailed = FALSE
    /\ feedbackFile = NoFeedbackFile
    /\ resultTxt = None
    /\ resultJson = None
    /\ statsFile = StatsFile(FALSE, FALSE, FALSE, <<>>)
    /\ displayed = None
    /\ sessionFile = SessionFile(FALSE, FALSE, 0, 0, 0)
    /\ loadedSession = None
    /\ feedbackAnswers = None
    /\ submissions = 0
    /\ updateFile = DefaultUpdateFile
    /\ check = NoCheck
    /\ gyroProbe \in {Some(in) : in \in GyroInputs}
    /\ runs = 1

\* info.py:398-416: the detection, the test and the info dict; the other fields are those
\* of the reference device, and GyroRange holds the float as it is
DetectGyro ==
    /\ pc = "get_gyro_data"
    /\ info' = Some([Device |-> "reference", DPI |-> 440, RefreshRate |-> 120,
                     ScreenSize |-> 667, GyroRange |-> GyroRangeOf(Val(gyroProbe))])
    /\ pc' = "get_player_style"
    /\ UNCHANGED <<game, mode, player_style, runs, cam_sense, fire_sense, gyro_sense,
                   news_adjust, adjustments, adjust, hist, failedAt, feedbackFailed, files, side>>

NextGyro == DetectGyro

SpecGyro == InitGyro /\ [][NextGyro]_vars

----------------------------------------------------------------------------
(* compare_versions (updates.py:145-166) *)

\* components of a version string
MaxComponents == 3

\* str.lstrip("v")
lstrip_v(version) == [version EXCEPT !.v = 0]

RECURSIVE IntParts(_)
\* [int(x) for x in clean.split(".") if x.isdigit()]: the components isdigit() rejects are
\* left out
IntParts(components) ==
    IF components = <<>> THEN <<>>
    ELSE IF Head(components)[1] = "word" THEN IntParts(Tail(components))
    ELSE <<Head(components)[2]>> \o IntParts(Tail(components))

\* int(x) raises ValueError for a component isdigit() accepted
IntRaises(components) == \E k \in 1..Len(components) : components[k][1] = "sup"

\* parts.extend([0] * (max_len - len(parts)))
Extended(parts, max_len) == [k \in 1..max_len |-> IF k <= Len(parts) THEN parts[k] ELSE 0]

MaxLen(a, b) == IF Len(a) >= Len(b) THEN Len(a) ELSE Len(b)

\* lines 157-162: the first index at which the lists differ decides
FirstDifference(current_parts, latest_parts) ==
    LET differ == {k \in 1..Len(current_parts) : current_parts[k] # latest_parts[k]}
    IN  IF differ = {} THEN <<FALSE, TRUE>>
        ELSE LET i == CHOOSE k \in differ : \A m \in differ : k <= m
             IN  IF latest_parts[i] > current_parts[i] THEN <<TRUE, FALSE>> ELSE <<FALSE, FALSE>>

\* the lists compared up to the length of the shorter one, without the zeros
compare_versionsMutNoPadding(current, latest) ==
    LET current_clean == lstrip_v(current).components
        latest_clean == lstrip_v(latest).components
    IN  IF IntRaises(current_clean) \/ IntRaises(latest_clean) THEN <<FALSE, FALSE>>
        ELSE LET current_parts == IntParts(current_clean)
                 latest_parts == IntParts(latest_clean)
                 short == IF Len(current_parts) <= Len(latest_parts)
                          THEN Len(current_parts) ELSE Len(latest_parts)
                 verdict == FirstDifference(SubSeq(current_parts, 1, short),
                                            SubSeq(latest_parts, 1, short))
             IN  IF verdict = <<FALSE, TRUE>> /\ Len(current_parts) # Len(latest_parts)
                 THEN <<Len(latest_parts) > Len(current_parts), FALSE>>
                 ELSE verdict

\* updates.py:145-166: (needs_update, is_equal); the ValueError of int() is handled at
\* lines 163-166 with (False, False)
compare_versions(current, latest) ==
    LET current_clean == lstrip_v(current).components
        latest_clean == lstrip_v(latest).components
    IN  IF IntRaises(current_clean) \/ IntRaises(latest_clean) THEN <<FALSE, FALSE>>
        ELSE LET current_parts == IntParts(current_clean)
                 latest_parts == IntParts(latest_clean)
                 max_len == MaxLen(current_parts, latest_parts)
             IN  FirstDifference(Extended(current_parts, max_len), Extended(latest_parts, max_len))

\* the components of the model's version strings
Components == {Num(0), Num(1), Word, Sup}

RECURSIVE ComponentSeqs(_)
\* the sequences of exactly n components
ComponentSeqs(n) ==
    IF n = 0 THEN {<<>>}
    ELSE {Append(c, x) : c \in ComponentSeqs(n - 1), x \in Components}

\* version strings of up to MaxComponents components, the one-component ones also with a
\* leading "v"
VersionStrings ==
    { Version(0, c) : c \in UNION {ComponentSeqs(n) : n \in 1..MaxComponents} } \cup
    { Version(1, c) : c \in ComponentSeqs(1) }

\* compare_versions is about to be called with two version strings
InitVersions ==
    /\ pc = "compare_versions"
    /\ game \in {"Free Fire"}
    /\ mode = ""
    /\ info = None
    /\ player_style = None
    /\ cam_sense = None
    /\ fire_sense = None
    /\ gyro_sense = None
    /\ news_adjust = None
    /\ adjustments = None
    /\ adjust = None
    /\ hist = <<>>
    /\ failedAt = ""
    /\ feedbackFailed = FALSE
    /\ feedbackFile = NoFeedbackFile
    /\ resultTxt = None
    /\ resultJson = None
    /\ statsFile = StatsFile(FALSE, FALSE, FALSE, <<>>)
    /\ displayed = None
    /\ sessionFile = SessionFile(FALSE, FALSE, 0, 0, 0)
    /\ loadedSession = None
    /\ feedbackAnswers = None
    /\ submissions = 0
    /\ updateFile = DefaultUpdateFile
    /\ \E c \in VersionStrings, l \in VersionStrings :
          check = [NoCheck EXCEPT !.current_version = c, !.latest_version = l]
    /\ gyroProbe = None
    /\ runs = 0

\* updates.py:65: needs_update, is_equal = compare_versions(current_version, latest_version)
CompareVersions ==
    /\ pc = "compare_versions"
    /\ LET verdict == compare_versions(check.current_version, check.latest_version)
       IN  check' = [check EXCEPT !.needs_update = verdict[1], !.is_equal = verdict[2]]
    /\ pc' = "compared"
    /\ UNCHANGED <<cam_sense, fire_sense, gyro_sense, news_adjust, adjustments, adjust, hist,
                   failedAt, feedbackFailed, files, inputs, sessionFile, loadedSession,
                   feedbackAnswers, submissions, updateFile, gyroProbe>>

NextVersions == CompareVersions

SpecVersions == InitVersions /\ [][NextVersions]_vars

\* the numbers a version string stands for: its digit components in order (a component
\* that is no number has no place in the numeric order), padded with zeros to length n
NumbersOf(version, n) ==
    LET RECURSIVE Digits(_)
        Digits(cs) == IF cs = <<>> THEN <<>>
                      ELSE IF Head(cs)[1] = "num" THEN <<Head(cs)[2]>> \o Digits(Tail(cs))
                      ELSE Digits(Tail(cs))
        parts == Digits(version.components)
    IN  [k \in 1..n |-> IF k <= Len(parts) THEN parts[k] ELSE 0]

\* latest is greater than current in component-wise numeric order
Greater(latest, current) ==
    \E k \in 1..Len(latest) :
        /\ latest[k] > current[k]
        /\ \A m \in 1..(k - 1) : latest[m] = current[m]

\* what the claim says of one call
VerdictAsClaimed(current, latest, needs_update, is_equal) ==
    LET n == MaxComponents
        c == NumbersOf(current, n)
        l == NumbersOf(latest, n)
    IN  /\ ~(needs_update /\ is_equal)
        /\ needs_update <=> Greater(l, c)
        /\ is_equal <=> (l = c)
        /\ current = latest => (~needs_update /\ is_equal)

\* int() accepts every component of the string that isdigit() accepts
Parsable(version) == ~IntRaises(version.components)

\* C30: compare_versions(current, latest) returns (needs_update, is_equal) that are never
\* both true: needs_update holds exactly when latest is greater than current in
\* component-wise numeric order after padding the shorter version with zeros, is_equal holds
\* exactly when all padded components are equal, and compare_versions(v, v) = (False, True)
\* for every version v.
C30_CompareVersions ==
    pc = "compared" =>
        VerdictAsClaimed(check.current_version, check.latest_version,
                         check.needs_update, check.is_equal)

\* C30 as the code has it: the claim holds for the version strings whose digit components
\* int() parses, where the components that are not digit strings are dropped before the
\* comparison; if int() rejects a component isdigit() accepted, the result is
\* (False, False), also for compare_versions(v, v).
C30_CompareParsableVersions ==
    pc = "compared" =>
        /\ ~(check.needs_update /\ check.is_equal)
        /\ IF Parsable(check.current_version) /\ Parsable(check.latest_version)
           THEN VerdictAsClaimed(check.current_version, check.latest_version,
                                 check.needs_update, check.is_equal)
           ELSE ~check.needs_update /\ ~check.is_equal

\* "1" against "1.0.1": the shorter list is padded to 1.0.0 and an update is needed
C30_Witness ==
    /\ pc = "compared"
    /\ check.current_version = Version(0, <<Num(1)>>)
    /\ check.latest_version = Version(0, <<Num(1), Num(0), Num(1)>>)
    /\ check.needs_update
    /\ ~check.is_equal

----------------------------------------------------------------------------
(* check_for_updates (updates.py:23-143), menu choice 7 (main.py:95-99) *)

\* calls of check_for_updates in one run of the program
MaxChecks == 2

\* constants.py:98-118 for a file: the version returned and the file afterwards. A stored
\* string with exactly two dots is returned; text that is no JSON raises JSONDecodeError,
\* handled at 116-118 without a write; a missing file or any other stored version makes
\* lines 110-114 write the default record (writable: open(..., "w") does not raise OSError)
get_current_version(file, writable) ==
    IF file.exists /\ ~file.valid THEN [version |-> default_version, file |-> file]
    ELSE IF file.exists /\ Len(file.current_version.components) = 3
    THEN [version |-> file.current_version, file |-> file]
    ELSE [version |-> default_version, file |-> IF writable THEN DefaultUpdateFile ELSE file]

\* the tag_name of the latest release: the installed version, a newer one with three
\* components, a newer one with two
ReleaseTags ==
    { Version(1, <<Num(1), Num(0), Num(9)>>), Version(1, <<Num(1), Num(1), Num(0)>>),
      Version(1, <<Num(2), Num(0)>>) }

\* update_info.json after the import of constants.py (line 120): the default record or a
\* record with a stored version, or text that is no JSON, which the import leaves alone
UpdateFilesAtStart ==
    { DefaultUpdateFile, UpdateFile(TRUE, FALSE, NoVersion, NoVersion) }

\* the return of check_for_updates (the finally clause of 142-143 waits for Enter) and of
\* main.py:96-99
ReturnFromCheck(c, value) == [c EXCEPT !.returned = Some(value)]

\* main.py:95-96 and updates.py:23-35: the call starts with get_current_version, which
\* stands before the try of line 36
CheckForUpdates ==
    /\ pc = "menu"
    /\ check.calls < MaxChecks
    /\ \E writable \in BOOLEAN :
          LET r == get_current_version(updateFile, writable)
          IN  /\ updateFile' = r.file
              /\ check' = [NoCheck EXCEPT !.calls = check.calls + 1,
                                          !.current_version = r.version,
                                          !.found = updateFile]
    /\ pc' = "requesting"
    /\ UNCHANGED <<cam_sense, fire_sense, gyro_sense, news_adjust, adjustments, adjust, hist,
                   failedAt, feedbackFailed, files, inputs, sessionFile, loadedSession,
                   feedbackAnswers, submissions, gyroProbe>>

\* updates.py:50-59: one pass of the retry loop. A response without error status leaves the
\* loop (break); a RequestException is swallowed for attempt 0 and 1 and raised again for
\* attempt 2, which ends the call in the handlers of 130-141 with False
RequestLatest ==
    /\ pc = "requesting"
    /\ check.attempts < 3
    /\ \E ok \in BOOLEAN, tag \in ReleaseTags :
          IF ok
          THEN /\ check' = [check EXCEPT !.attempts = @ + 1, !.succeeded = TRUE,
                                         !.latest_version = tag]
               /\ pc' = "got release"
          ELSE IF check.attempts = 2
          THEN /\ check' = ReturnFromCheck([check EXCEPT !.attempts = @ + 1], FALSE)
               /\ pc' = "menu"
          ELSE /\ check' = [check EXCEPT !.attempts = @ + 1]
               /\ pc' = "requesting"
    /\ UNCHANGED <<cam_sense, fire_sense, gyro_sense, news_adjust, adjustments, adjust, hist,
                   failedAt, feedbackFailed, files, inputs, sessionFile, loadedSession,
                   feedbackAnswers, submissions, updateFile, gyroProbe>>

\* updates.py:61-129: the tag without its "v", the comparison, the update record written
\* to update_info.json (an OSError ends the call with False, handler of 134-137); without a
\* newer version the call returns False at line 129
SaveUpdateInfo ==
    /\ pc = "got release"
    /\ \E writable \in BOOLEAN :
          LET latest_version == lstrip_v(check.latest_version)
              verdict == compare_versions(check.current_version, latest_version)
              c == [check EXCEPT !.latest_version = latest_version,
                                 !.needs_update = verdict[1], !.is_equal = verdict[2]]
          IN  IF ~writable
              THEN /\ check' = ReturnFromCheck(c, FALSE)
                   /\ pc' = "menu"
                   /\ UNCHANGED updateFile
              ELSE /\ updateFile' = UpdateFile(TRUE, TRUE, check.current_version, latest_version)
                   /\ IF verdict[1]
                      THEN check' = c /\ pc' = "update prompt"
                      ELSE check' = ReturnFromCheck(c, FALSE) /\ pc' = "menu"
    /\ UNCHANGED <<cam_sense, fire_sense, gyro_sense, news_adjust, adjustments, adjust, hist,
                   failedAt, feedbackFailed, files, inputs, sessionFile, loadedSession,
                   feedbackAnswers, submissions, gyroProbe>>

\* updates.py:89-129: the question, and download_and_apply_update (168-273) if the answer
\* is yes; a successful update writes the latest version as current_version (235-245) and
\* makes the call return True, everything else returns False
PromptUpdate ==
    /\ pc = "update prompt"
    /\ \E accepted \in BOOLEAN, applied \in BOOLEAN :
          LET c == [check EXCEPT !.accepted = accepted, !.applied = accepted /\ applied]
          IN  IF accepted /\ applied
              THEN /\ updateFile' = UpdateFile(TRUE, TRUE, check.latest_version, check.latest_version)
                   /\ check' = ReturnFromCheck(c, TRUE)
              ELSE /\ UNCHANGED updateFile
                   /\ check' = ReturnFromCheck(c, FALSE)
    /\ pc' = "menu"
    /\ UNCHANGED <<cam_sense, fire_sense, gyro_sense, news_adjust, adjustments, adjust, hist,
                   failedAt, feedbackFailed, files, inputs, sessionFile, loadedSession,
                   feedbackAnswers, submissions, gyroProbe>>

\* the program at the menu
InitUpdate ==
    /\ pc = "menu"
    /\ game \in Games
    /\ mode = ""
    /\ info = None
    /\ player_style = None
    /\ cam_sense = None
    /\ fire_sense = None
    /\ gyro_sense = None
    /\ news_adjust = None
    /\ adjustments = None
    /\ adjust = None
    /\ hist = <<>>
    /\ failedAt = ""
    /\ feedbackFailed = FALSE
    /\ feedbackFile = NoFeedbackFile
    /\ resultTxt = None
    /\ resultJson = None
    /\ statsFile = StatsFile(FALSE, FALSE, FALSE, <<>>)
    /\ displayed = None
    /\ sessionFile = SessionFile(FALSE, FALSE, 0, 0, 0)
    /\ loadedSession = None
    /\ feedbackAnswers = None
    /\ submissions = 0
    /\ updateFile \in UpdateFilesAtStart
    /\ check = NoCheck
    /\ gyroProbe = None
    /\ runs = 0

NextUpdate ==
    \/ CheckForUpdates
    \/ RequestLatest
    \/ SaveUpdateInfo
    \/ PromptUpdate

SpecUpdate == InitUpdate /\ [][NextUpdate]_vars

\* the call has returned after three failed requests
AllAttemptsFailed == check.returned # None /\ check.attempts = 3 /\ ~check.succeeded

\* no request is made after a response has arrived
StopsAtFirstSuccess ==
    (check.succeeded /\ check'.calls = check.calls) => check'.attempts = check.attempts

\* C29: update check retry: check_for_updates requests the latest release at most 3 times,
\* stops at the first success, returns False without writing update info when all 3
\* attempts fail, and returns True only when an update was available, the user accepted it
\* and download_and_apply_update succeeded.
C29_UpdateCheckRetry ==
    /\ [](check.attempts <= 3)
    /\ [][StopsAtFirstSuccess]_vars
    /\ [](AllAttemptsFailed => (check.returned = Some(FALSE) /\ updateFile = check.found))
    /\ [](check.returned = Some(TRUE) =>
            (check.needs_update /\ check.accepted /\ check.applied))

====
